---- MODULE Spec2Model ----
(***************************************************************************)
(* A model of the heuristic text-metrics pipeline: the segmenter and       *)
(* tokenizer, the lexicon scorer, the rolling aggregator, the entry points *)
(* that accept a window size and a text, the readability formulas and the  *)
(* type-token statistics.                                                  *)
(*                                                                         *)
(* Text is a sequence of one-character strings.  A Python float is the     *)
(* rational it denotes, kept in lowest terms as [num, den] (see Quot), so  *)
(* that two floats are equal exactly when their records are equal.  The    *)
(* series of the emotion arc are integer valued, and on those the sums the *)
(* code forms are exact; where a formula multiplies by decimal constants   *)
(* its rounding is modelled with both outcomes of a decimal tie.           *)
(***************************************************************************)
EXTENDS Integers, Sequences, FiniteSets, TLC

VARIABLES
  roll,   \* the frame of one call of rolling(values, window)
  arc,    \* one call of chapter_emotion_arc.analyze and what it returned
  entry,  \* one request at an entry point and what the caller got back
  style,  \* one call into chapter_style_readability and its result
  lex,    \* one call of chapter_lexical_diversity.analyze and its report
  cont,   \* one call into chapter_continuity_consistency and its result
  mech,   \* one call into chapter_mechanics_cleanup and its result
  struct, \* one call into chapter_structural_analysis and its result
  beats,  \* one call into chapter_beats_detection and its result
  srv,    \* the stdio server: the lines of its input, and what it has written
  mtld,   \* the frame of one call of approx_mtld(words)
  tool    \* a MemoryTool: its memories, its file, the clock and the last call

vars == <<roll, arc, entry, style, lex, cont, mech, struct, beats, srv, mtld, tool>>

(***************************************************************************)
(* Bounds of the model.                                                    *)
(***************************************************************************)
MaxLen == 4

MaxWindow == 3

MaxPieces == 3

\* max_text_length the analyzers of the servers are constructed with
MaxTextLength == 4

MaxCount == 3

MaxTokens == 4

MaxNames == 3

\* the most lines on the stdin of the stdio server
MaxLines == 2

\* the most words of a text whose windows are analysed, and the widest window
MaxRun == 7

MaxRunWindow == 5

\* the last of the positions, in steps of 1/200, that in_window is applied to
MaxPosition == 202

\* the most memories added to the tool, and the last reading of its clock
MaxMemories == 2

MaxClock == 1

(***************************************************************************)
(* Constants of the program.                                               *)
(***************************************************************************)
\* window_size: Field(default=5, ge=1, le=50)
DefaultWindow == 5

WindowSizeMin == 1

WindowSizeMax == 50

(***************************************************************************)
(* Characters.                                                             *)
(***************************************************************************)
LowerSeq ==
  <<
    "a", "b", "c", "d", "e", "f", "g", "h", "i", "j", "k", "l", "m", "n", "o", "p", "q",
    "r", "s", "t", "u", "v", "w", "x", "y", "z"
  >>

UpperSeq ==
  <<
    "A", "B", "C", "D", "E", "F", "G", "H", "I", "J", "K", "L", "M", "N", "O", "P", "Q",
    "R", "S", "T", "U", "V", "W", "X", "Y", "Z"
  >>

Range(s) == {s[i] : i \in DOMAIN s}

Lower == Range(LowerSeq)

Upper == Range(UpperSeq)

Digit == {"0", "1", "2", "3", "4", "5", "6", "7", "8", "9"}

\* [A-Za-z0-9]
Alnum == Lower \cup Upper \cup Digit

\* ['-]
Joiner == {"'", "-"}

\* \s, and what str.strip() removes
Whitespace == {" ", "\t", "\n", "\r", "\f"}

\* [.!?]
Terminal == {".", "!", "?"}

\* str.lower() on one character
LowerChar(c) ==
  IF c \in Upper
    THEN LowerSeq[CHOOSE i \in DOMAIN UpperSeq : UpperSeq[i] = c]
    ELSE c

\* str.lower()
str_lower(s) == [i \in 1..Len(s) |-> LowerChar(s[i])]

(***************************************************************************)
(* Floats as rationals in lowest terms.                                    *)
(***************************************************************************)
Abs(n) == IF n < 0 THEN -n ELSE n

RECURSIVE GCD(_, _)
GCD(a, b) == IF b = 0 THEN a ELSE GCD(b, a % b)

\* the float n/d, d > 0
Quot(n, d) ==
  LET g == GCD(Abs(n), d)
  IN  [num |-> n \div g, den |-> d \div g]

\* float(n)
Float(n) == Quot(n, 1)

\* round-half-even of the rational p/q (q > 0) to an integer, as round() does
RoundHalfEven(p, q) ==
  LET f == p \div q
      r == p - f * q
  IN  IF 2 * r < q THEN f
      ELSE IF 2 * r > q THEN f + 1
      ELSE IF f % 2 = 0 THEN f ELSE f + 1

\* round(p/q, digits) for digits in {2, 3}; scale is 10^digits
RoundTo(p, q, scale) == Quot(RoundHalfEven(p * scale, q), scale)

RECURSIVE SumSeq(_)
SumSeq(s) == IF s = <<>> THEN 0 ELSE Head(s) + SumSeq(Tail(s))

Min(a, b) == IF a < b THEN a ELSE b

(***************************************************************************)
(* Segmenter: chapter_emotion_arc.sentences and tokens.  The scans of the  *)
(* string methods and regular expressions are written with bounded         *)
(* quantifiers, and recursion is kept to one level per token or sentence.  *)
(***************************************************************************)
\* the least element of a non-empty set of integers
Least(S) == CHOOSE j \in S : \A k \in S : j <= k

\* the first index j >= i with s[j] in C, or Len(s) + 1 if there is none
FirstIn(s, i, C) ==
  LET hits == {j \in i..Len(s) : s[j] \in C}
  IN  IF hits = {} THEN Len(s) + 1 ELSE Least(hits)

\* the first index j >= i with s[j] not in C, or Len(s) + 1 if there is none
FirstNotIn(s, i, C) ==
  LET hits == {j \in i..Len(s) : s[j] \notin C}
  IN  IF hits = {} THEN Len(s) + 1 ELSE Least(hits)

\* the elements of s at the indices in keep, in order
AtIndices(s, keep) ==
  [j \in 1..Cardinality(keep) |->
     s[CHOOSE i \in keep : Cardinality({k \in keep : k <= i}) = j]]

\* text.replace("\r\n", "\n").replace("\r", "\n"): the "\n" of a "\r\n" goes,
\* and every "\r" becomes "\n"
ReplaceCRLF(s) ==
  LET keep == {i \in 1..Len(s) : ~(s[i] = "\n" /\ i > 1 /\ s[i - 1] = "\r")}
      kept == AtIndices(s, keep)
  IN  [j \in 1..Len(kept) |-> IF kept[j] = "\r" THEN "\n" ELSE kept[j]]

\* str.strip()
Strip(s) ==
  LET first == FirstNotIn(s, 1, Whitespace)
      inner == {j \in 1..Len(s) : s[j] \notin Whitespace}
  IN  IF inner = {} THEN <<>>
      ELSE SubSeq(s, first, CHOOSE j \in inner : \A k \in inner : k <= j)

\* the index just past the whitespace run that starts at i
WhitespaceEnd(s, i) == FirstNotIn(s, i, Whitespace)

\* re.sub(r"\s+", " ", s): each maximal whitespace run becomes one space
CollapseWhitespace(s) ==
  LET keep == {i \in 1..Len(s) :
                 s[i] \in Whitespace => (i = 1 \/ s[i - 1] \notin Whitespace)}
      kept == AtIndices(s, keep)
  IN  [j \in 1..Len(kept) |-> IF kept[j] \in Whitespace THEN " " ELSE kept[j]]

\* the same search with a lookbehind of [!?] only: "." ends no sentence
NextSplitNoPeriod(t, i) ==
  LET hits == {j \in i..Len(t) : t[j] \in Whitespace /\ j > 1 /\ t[j - 1] \in {"!", "?"}}
  IN  IF hits = {} THEN Len(t) + 1 ELSE Least(hits)

\* where SENTENCE_SPLIT_RE = (?<=[.!?])\s+ matches at or after i: the first
\* whitespace that directly follows a terminal mark, or Len(t) + 1
NextSplit(t, i) ==
  LET hits == {j \in i..Len(t) : t[j] \in Whitespace /\ j > 1 /\ t[j - 1] \in Terminal}
  IN  IF hits = {} THEN Len(t) + 1 ELSE Least(hits)

\* SENTENCE_SPLIT_RE.split(t) from the piece that starts at b
RECURSIVE SentenceSplitFrom(_, _)
SentenceSplitFrom(t, b) ==
  LET m == NextSplit(t, b)
  IN  IF m > Len(t) THEN <<SubSeq(t, b, Len(t))>>
      ELSE <<SubSeq(t, b, m - 1)>> \o SentenceSplitFrom(t, WhitespaceEnd(t, m))

SENTENCE_SPLIT_RE_split(t) == SentenceSplitFrom(t, 1)

\* the list with no filter: [s.strip() for s in parts]
StripAll(parts) == [i \in 1..Len(parts) |-> Strip(parts[i])]

\* [s.strip() for s in parts if s.strip()]
StripNonEmpty(parts) ==
  LET stripped == [i \in 1..Len(parts) |-> Strip(parts[i])]
  IN  SelectSeq(stripped, LAMBDA p : p # <<>>)

sentences(text) ==
  LET t == CollapseWhitespace(Strip(ReplaceCRLF(text)))
  IN  StripNonEmpty(SENTENCE_SPLIT_RE_split(t))

\* the index just past the [A-Za-z0-9]+ run that starts at i
AlnumEnd(s, i) == FirstNotIn(s, i, Alnum)

\* j is just past an alphanumeric run: take (?:['-][A-Za-z0-9]+)* greedily
RECURSIVE WordEnd(_, _)
WordEnd(s, j) ==
  IF j + 1 <= Len(s) /\ s[j] \in Joiner /\ s[j + 1] \in Alnum
    THEN WordEnd(s, AlnumEnd(s, j + 1))
    ELSE j

\* the matches of WORD_RE that start at or after i
RECURSIVE FindWordsFrom(_, _)
FindWordsFrom(s, i) ==
  LET b == FirstIn(s, i, Alnum)
  IN  IF b > Len(s) THEN <<>>
      ELSE LET e == WordEnd(s, AlnumEnd(s, b))
           IN  <<SubSeq(s, b, e - 1)>> \o FindWordsFrom(s, e)

\* WORD_RE.findall(s), WORD_RE = [A-Za-z0-9]+(?:['-][A-Za-z0-9]+)*
WORD_RE_findall(s) == FindWordsFrom(s, 1)

tokens(s) ==
  LET ws == WORD_RE_findall(s)
  IN  [i \in 1..Len(ws) |-> str_lower(ws[i])]

(***************************************************************************)
(* The lexicons of chapter_emotion_arc.                                    *)
(***************************************************************************)
POS ==
  {
    <<"j","o","y">>, <<"l","o","v","e">>, <<"g","l","a","d">>, <<"h","o","p","e">>,
    <<"d","e","l","i","g","h","t">>, <<"c","h","e","e","r">>, <<"s","m","i","l","e">>,
    <<"t","r","u","s","t">>, <<"s","a","f","e">>, <<"c","a","l","m">>,
    <<"r","e","l","i","e","f">>, <<"b","r","a","v","e">>,
    <<"c","o","n","f","i","d","e","n","t">>, <<"w","i","n">>, <<"h","a","p","p","y">>,
    <<"p","l","e","a","s","e","d">>, <<"l","a","u","g","h">>, <<"g","r","i","n">>,
    <<"j","o","y","f","u","l">>
  }

NEG ==
  {
    <<"s","a","d">>, <<"a","n","g","r","y">>, <<"a","n","g","e","r">>, <<"f","e","a","r">>,
    <<"a","f","r","a","i","d">>, <<"t","e","r","r","o","r">>, <<"p","a","n","i","c">>,
    <<"h","u","r","t">>, <<"b","l","e","e","d">>, <<"p","a","i","n">>, <<"c","r","y">>,
    <<"f","a","i","l">>, <<"l","o","s","e">>, <<"d","a","n","g","e","r">>,
    <<"t","h","r","e","a","t">>, <<"s","o","r","r","o","w">>, <<"g","l","o","o","m">>,
    <<"m","o","u","r","n">>, <<"t","e","a","r","s">>, <<"g","r","i","e","f">>,
    <<"l","o","n","e","l","y">>
  }

EMO ==
  [
    joy |->
      {
        <<"j","o","y">>, <<"d","e","l","i","g","h","t">>, <<"h","a","p","p","y">>,
        <<"g","l","a","d">>, <<"s","m","i","l","e">>, <<"c","h","e","e","r">>,
        <<"p","l","e","a","s","e","d">>, <<"l","a","u","g","h">>, <<"g","r","i","n">>
      },
    sadness |->
      {
        <<"s","a","d">>, <<"s","o","r","r","o","w">>, <<"g","l","o","o","m">>,
        <<"m","o","u","r","n">>, <<"c","r","y">>, <<"t","e","a","r","s">>,
        <<"g","r","i","e","f">>, <<"l","o","n","e","l","y">>
      },
    anger |->
      {
        <<"a","n","g","e","r">>, <<"a","n","g","r","y">>, <<"r","a","g","e">>,
        <<"f","u","r","y">>, <<"i","r","r","i","t","a","t","e">>,
        <<"a","n","n","o","y","e","d">>, <<"h","a","t","e">>, <<"j","e","a","l","o","u","s">>
      },
    fear |->
      {
        <<"f","e","a","r">>, <<"a","f","r","a","i","d">>, <<"s","c","a","r","e">>,
        <<"t","e","r","r","o","r">>, <<"p","a","n","i","c">>, <<"a","n","x","i","e","t","y">>,
        <<"d","r","e","a","d">>, <<"t","h","r","e","a","t">>
      },
    trust |->
      {
        <<"t","r","u","s","t">>, <<"s","a","f","e">>, <<"s","e","c","u","r","e">>,
        <<"f","a","i","t","h">>, <<"r","e","l","i","a","n","c","e">>,
        <<"c","e","r","t","a","i","n">>
      },
    disgust |->
      {
        <<"d","i","s","g","u","s","t">>, <<"g","r","o","s","s">>, <<"n","a","u","s","e","a">>,
        <<"r","e","p","u","l","s","e">>, <<"v","i","l","e">>, <<"f","i","l","t","h","y">>,
        <<"r","e","v","o","l","t">>
      },
    surprise |->
      {
        <<"s","u","r","p","r","i","s","e">>, <<"s","h","o","c","k">>,
        <<"s","t","a","r","t","l","e">>, <<"a","s","t","o","n","i","s","h">>,
        <<"s","u","d","d","e","n">>, <<"u","n","e","x","p","e","c","t","e","d">>
      },
    anticipation |->
      {
        <<"a","n","t","i","c","i","p","a","t","e">>, <<"e","a","g","e","r">>,
        <<"e","x","p","e","c","t">>, <<"a","w","a","i","t">>, <<"h","o","p","e">>,
        <<"y","e","a","r","n">>, <<"r","e","a","d","y">>
      }
  ]
(***************************************************************************)
(* Lexicon scorer: chapter_emotion_arc.score_sentence.                     *)
(***************************************************************************)
\* the keys of EMO in the order the dict holds them
EMO_KEYS ==
  <<"joy", "sadness", "anger", "fear", "trust", "disgust", "surprise", "anticipation">>

\* sum(1 for w in toks if w in S)
RECURSIVE SumHits(_, _)
SumHits(toks, S) ==
  IF toks = <<>> THEN 0
  ELSE (IF Head(toks) \in S THEN 1 ELSE 0) + SumHits(Tail(toks), S)

\* hits counted once per distinct token, as over set(toks)
score_sentence_distinct(i, s) ==
  LET toks == tokens(s)
      hits(S) == Cardinality(Range(toks) \cap S)
  IN  [index |-> i, text |-> s,
       valence_raw |-> hits(POS) - hits(NEG),
       emotions |-> [k \in Range(EMO_KEYS) |-> hits(EMO[k])]]

\* only the categories that were hit get a key
score_sentence_sparse(i, s) ==
  LET toks == tokens(s)
      hit == {k \in Range(EMO_KEYS) : SumHits(toks, EMO[k]) > 0}
  IN  [index |-> i, text |-> s,
       valence_raw |-> SumHits(toks, POS) - SumHits(toks, NEG),
       emotions |-> [k \in hit |-> SumHits(toks, EMO[k])]]

score_sentence(i, s) ==
  LET toks == tokens(s)
  IN  [index |-> i, text |-> s,
       valence_raw |-> SumHits(toks, POS) - SumHits(toks, NEG),
       emotions |-> [k \in Range(EMO_KEYS) |-> SumHits(toks, EMO[k])]]

(***************************************************************************)
(* Rolling aggregator: chapter_emotion_arc.rolling.                        *)
(***************************************************************************)
\* the state of the loop before its first iteration
RollingStart == [dq |-> <<>>, run |-> 0, out |-> <<>>]

\* `len(dq) >= window' in place of `len(dq) > window'
RollingBodyEager(st, v, window) ==
  LET dq1  == Append(st.dq, v)
      run1 == st.run + v
      pop  == Len(dq1) >= window
      dq2  == IF pop THEN Tail(dq1) ELSE dq1
      run2 == IF pop THEN run1 - Head(dq1) ELSE run1
  IN  [dq |-> dq2, run |-> run2, out |-> Append(st.out, Quot(run2, Len(dq2)))]

\* an average is emitted only once the queue holds a full window
RollingBodyFullWindow(st, v, window) ==
  LET dq1  == Append(st.dq, v)
      run1 == st.run + v
      pop  == Len(dq1) > window
      dq2  == IF pop THEN Tail(dq1) ELSE dq1
      run2 == IF pop THEN run1 - Head(dq1) ELSE run1
  IN  [dq |-> dq2, run |-> run2,
       out |-> IF Len(dq2) = window THEN Append(st.out, Quot(run2, Len(dq2))) ELSE st.out]

\* one iteration of `for v in values'
RollingBody(st, v, window) ==
  LET dq1  == Append(st.dq, v)
      run1 == st.run + v
      pop  == Len(dq1) > window
      dq2  == IF pop THEN Tail(dq1) ELSE dq1
      run2 == IF pop THEN run1 - Head(dq1) ELSE run1
  IN  [dq |-> dq2, run |-> run2, out |-> Append(st.out, Quot(run2, Len(dq2)))]

\* values[:] of a list of floats
CopyFloats(values) == [i \in 1..Len(values) |-> Float(values[i])]

RECURSIVE RollingLoop(_, _, _, _)
RollingLoop(st, values, i, window) ==
  IF i > Len(values) THEN st.out
  ELSE RollingLoop(RollingBody(st, values[i], window), values, i + 1, window)

\* rolling(values, window) as one call
rolling(values, window) ==
  IF window <= 1 THEN CopyFloats(values)
  ELSE RollingLoop(RollingStart, values, 1, window)

\* the series and windows rolling is called with
SeriesValues == {-1, 0, 2}

RECURSIVE SeqsUpTo(_, _)
SeqsUpTo(S, n) ==
  IF n = 0 THEN {<<>>}
  ELSE LET shorter == SeqsUpTo(S, n - 1)
       IN  shorter \cup {Append(s, x) : s \in {t \in shorter : Len(t) = n - 1}, x \in S}

Windows == 0..MaxWindow

RollIdle == [pc |-> "idle"]

\* rolling is entered: its arguments are bound
RollingCall ==
  /\ roll.pc = "idle"
  /\ \E values \in SeqsUpTo(SeriesValues, MaxLen), window \in Windows :
       roll' = [pc |-> "entry", values |-> values, window |-> window, i |-> 0,
                dq |-> <<>>, run |-> 0, out |-> <<>>]
  /\ UNCHANGED <<arc, entry, style, lex, cont, mech, struct, beats, srv, mtld, tool>>

\* if window <= 1: return values[:]
RollingIdentity ==
  /\ roll.pc = "entry"
  /\ roll.window <= 1
  /\ roll' = [roll EXCEPT !.pc = "return", !.out = CopyFloats(roll.values)]
  /\ UNCHANGED <<arc, entry, style, lex, cont, mech, struct, beats, srv, mtld, tool>>

\* one pass through the body of the for loop
RollingIterate ==
  /\ roll.pc \in {"entry", "loop"}
  /\ roll.window > 1
  /\ roll.i < Len(roll.values)
  /\ LET st == RollingBody([dq |-> roll.dq, run |-> roll.run, out |-> roll.out],
                           roll.values[roll.i + 1], roll.window)
     IN  roll' = [roll EXCEPT !.pc = "loop", !.i = roll.i + 1,
                              !.dq = st.dq, !.run = st.run, !.out = st.out]
  /\ UNCHANGED <<arc, entry, style, lex, cont, mech, struct, beats, srv, mtld, tool>>

\* the loop is exhausted: return out
RollingReturn ==
  /\ roll.pc \in {"entry", "loop"}
  /\ roll.window > 1
  /\ roll.i = Len(roll.values)
  /\ roll' = [roll EXCEPT !.pc = "return"]
  /\ UNCHANGED <<arc, entry, style, lex, cont, mech, struct, beats, srv, mtld, tool>>

\* the document of scripts/test_components.py test_basic_analysis
ScenarioText ==
  <<
    "I", " ", "a", "m", " ", "h", "a", "p", "p", "y", " ", "t", "o", "d", "a", "y", ".",
    " ", "B", "u", "t", " ", "y", "e", "s", "t", "e", "r", "d", "a", "y", " ", "I", " ",
    "w", "a", "s", " ", "s", "a", "d", ".", " ", "T", "o", "m", "o", "r", "r", "o", "w",
    " ", "w", "i", "l", "l", " ", "b", "e", " ", "b", "e", "t", "t", "e", "r", "!"
  >>

(***************************************************************************)
(* chapter_emotion_arc.analyze.                                            *)
(***************************************************************************)
\* Counter(): keys in insertion order, and their counts
EmptyCounter == [keys |-> <<>>, count |-> <<>>]

\* c[k] += n
CounterAdd(c, k, n) ==
  IF k \in Range(c.keys)
    THEN [c EXCEPT !.count[k] = @ + n]
    ELSE [keys |-> Append(c.keys, k), count |-> (k :> n) @@ c.count]

\* s without its element at position i
RemoveAt(s, i) == SubSeq(s, 1, i - 1) \o SubSeq(s, i + 1, Len(s))

\* Counter.most_common(n): by count, largest first; equal counts keep insertion order
RECURSIVE MostCommon(_, _, _)
MostCommon(keys, count, n) ==
  IF n = 0 \/ keys = <<>> THEN <<>>
  ELSE LET best == CHOOSE i \in 1..Len(keys) :
                     \A j \in 1..Len(keys) :
                       \/ count[keys[j]] < count[keys[i]]
                       \/ count[keys[j]] = count[keys[i]] /\ i <= j
       IN  <<keys[best]>> \o MostCommon(RemoveAt(keys, best), count, n - 1)

most_common(c, n) == MostCommon(c.keys, c.count, n)

\* for k, c in sc.emotions.items(): emo_totals[k] += c      (one score)
RECURSIVE AddEmotions(_, _, _)
AddEmotions(c, emotions, j) ==
  IF j > Len(EMO_KEYS) THEN c
  ELSE LET k == EMO_KEYS[j]
       IN  AddEmotions(IF k \in DOMAIN emotions THEN CounterAdd(c, k, emotions[k]) ELSE c,
                       emotions, j + 1)

\* emo_totals after the loop over scores
RECURSIVE EmoTotals(_, _, _)
EmoTotals(c, scores, i) ==
  IF i > Len(scores) THEN c
  ELSE EmoTotals(AddEmotions(c, scores[i].emotions, 1), scores, i + 1)

\* emo_series[k] after the loop over scores
EmoSeries(scores, k) ==
  LET has == SelectSeq(scores, LAMBDA sc : k \in DOMAIN sc.emotions)
  IN  [i \in 1..Len(has) |-> has[i].emotions[k]]

\* a value returned, or an exception raised
Returned(v) == [raised |-> "none", value |-> v]

Raised(e) == [raised |-> e]

\* statistics.mean raises on an empty list
mean(xs) ==
  IF xs = <<>> THEN Raised("StatisticsError")
  ELSE Returned([sum |-> SumSeq(xs), n |-> Len(xs)])

\* round(mean(val_raw), 2)
RoundedMean(xs) ==
  LET m == mean(xs)
  IN  IF m.raised # "none" THEN m
      ELSE Returned(RoundTo(m.value.sum, m.value.n, 100))

\* round(mean(val_raw), 2) if val_raw else 0.0
AvgValence(val_raw) ==
  IF val_raw # <<>> THEN RoundedMean(val_raw) ELSE Returned(Float(0))

\* the tuple analyze returns, from the values it has computed on the way
AnalyzeReturn(sents, scores, val_raw, emo_totals, avg, window) ==
  IF avg.raised # "none" THEN avg
  ELSE [raised |-> "none",
        scores |-> scores,
        val_roll |-> rolling(val_raw, window),
        emo_roll |-> [k \in Range(EMO_KEYS) |-> rolling(EmoSeries(scores, k), window)],
        summary |-> [sentences |-> Len(sents), avg_valence |-> avg.value,
                     top_emotions |-> most_common(emo_totals, 3)]]

\* val_raw = [float(sc.valence_raw) for sc in scores]
ValRaw(scores) == [i \in 1..Len(scores) |-> scores[i].valence_raw]

\* analyze once scores is built
AnalyzeScores(sents, scores, val_raw, window) ==
  AnalyzeReturn(sents, scores, val_raw, EmoTotals(EmptyCounter, scores, 1),
                AvgValence(val_raw), window)

\* scores = [score_sentence(i, s) for i, s in enumerate(sents)]
ScoreAll(sents) == [i \in 1..Len(sents) |-> score_sentence(i - 1, sents[i])]

\* analyze once sents is built
AnalyzeSentences(sents, scores, window) ==
  AnalyzeScores(sents, scores, ValRaw(scores), window)

analyze_sents(sents, window) == AnalyzeSentences(sents, ScoreAll(sents), window)

analyze(text, window) == analyze_sents(sentences(text), window)

\* the documents analyze is called with: up to MaxPieces of these pieces in a
\* row, and the scenario document of the component test
Pieces ==
  {<<"s", "a", "d">>, <<"j", "o", "y">>, <<"H", "o", "p", "e">>, <<"x">>,
   <<" ">>, <<".">>, <<"-">>}

RECURSIVE TextsUpTo(_, _)
TextsUpTo(P, n) ==
  IF n = 0 THEN {<<>>}
  ELSE LET shorter == TextsUpTo(P, n - 1)
       IN  shorter \cup {t \o p : t \in shorter, p \in P}

ArcTexts == TextsUpTo(Pieces, MaxPieces) \cup {ScenarioText}

\* analyze(text, window) is called and returns (or raises)
Analyze ==
  /\ arc.pc = "idle"
  /\ \E text \in ArcTexts, window \in Windows :
       arc' = [pc |-> "return", text |-> text, window |-> window,
               result |-> analyze(text, window)]
  /\ UNCHANGED <<roll, entry, style, lex, cont, mech, struct, beats, srv, mtld, tool>>

(***************************************************************************)
(* Entry points that take a text and a window size from outside: the CLI   *)
(* main of chapter_emotion_arc, the MCP server's call_tool handler, the     *)
(* HTTP API's POST /analyze, and the stdio server's tools/call.  The two    *)
(* EmotionArcAnalyzer objects are constructed with max_text_length =        *)
(* MaxTextLength in place of the default 100000, so that texts on both      *)
(* sides of the limit are among the inputs.                                 *)
(***************************************************************************)
\* the texts and window sizes a caller sends
EntryPieces == {<<"s", "a", "d">>, <<" ">>, <<"x", ".">>}

EntryTexts == TextsUpTo(EntryPieces, MaxPieces)

WindowInputs == {-1, 0, 1, MaxWindow, WindowSizeMax, WindowSizeMax + 1}

\* a dict with the key, or the empty dict
Optional(key, values) == {<<>>} \cup {key :> v : v \in values}

\* d.get(key, default)
Get(d, key, default) == IF key \in DOMAIN d THEN d[key] ELSE default

\* the constraints both EmotionArcRequest models declare on their fields:
\* text required (min_length on the HTTP model), window_size ge=1 le=50,
\* output_format ^(json|csv|markdown)$
RequestErrors(arguments, min_text_length) ==
  (IF \/ "text" \notin DOMAIN arguments
      \/ Len(arguments["text"]) < min_text_length
     THEN {"text"} ELSE {})
  \cup
  (IF /\ "window_size" \in DOMAIN arguments
      /\ \/ arguments["window_size"] < WindowSizeMin
         \/ arguments["window_size"] > WindowSizeMax
     THEN {"window_size"} ELSE {})
  \cup
  (IF /\ "output_format" \in DOMAIN arguments
      /\ arguments["output_format"] \notin {"json", "csv", "markdown"}
     THEN {"output_format"} ELSE {})

\* EmotionArcRequest(**arguments) once validation has passed
EmotionArcRequest(arguments) ==
  [text |-> arguments["text"],
   window_size |-> Get(arguments, "window_size", DefaultWindow),
   output_format |-> Get(arguments, "output_format", "json"),
   include_sentences |-> Get(arguments, "include_sentences", FALSE)]

\* the dict analyze_text builds from what analyze returned
AnalyzeTextResult(request, call, r) ==
  IF r.raised # "none"
    THEN [raised |-> "ValueError", detail |-> "Analysis failed", core |-> <<call>>]
    ELSE [raised |-> "none",
          core |-> <<call>>,
          value |->
            [summary |-> r.summary,
             valence_rolling |-> r.val_roll,
             emotions_rolling |-> r.emo_roll,
             parameters |-> [window_size |-> request.window_size,
                             text_length |-> Len(request.text),
                             sentence_count |-> Len(sentences(request.text))],
             sentences |-> IF request.include_sentences THEN r.scores ELSE <<>>]]

\* EmotionArcAnalyzer.analyze_text (both servers): what it returns or raises,
\* and the calls of the core analyze it made
analyze_text(request) ==
  IF Len(request.text) > MaxTextLength
    THEN [raised |-> "ValueError", detail |-> "Text too long", core |-> <<>>]
  ELSE IF Strip(request.text) = <<>>
    THEN [raised |-> "ValueError", detail |-> "Text cannot be empty", core |-> <<>>]
  ELSE AnalyzeTextResult(request,
                         [text |-> request.text, window |-> request.window_size],
                         analyze(request.text, request.window_size))

\* the CallToolResult the MCP handler returns for what analyze_text did
McpCallToolResult(request, r) ==
  IF r.raised # "none"
    THEN [raised |-> "none", isError |-> TRUE, detail |-> r.detail, core |-> r.core]
    ELSE [raised |-> "none", isError |-> FALSE, core |-> r.core,
          content |-> [format |-> request.output_format, of |-> r.value]]

mcp_analyze(request) == McpCallToolResult(request, analyze_text(request))

\* emotion_arc_mcp_server.handle_call_tool(name, arguments)
mcp_handle_call_tool(name, arguments) ==
  IF name # "analyze_emotion_arc"
    THEN [raised |-> "ValueError", detail |-> "Unknown tool", core |-> <<>>]
  ELSE IF RequestErrors(arguments, 0) # {}
    THEN [raised |-> "none", isError |-> TRUE, detail |-> "Invalid input parameters",
          core |-> <<>>]
  ELSE mcp_analyze(EmotionArcRequest(arguments))

\* the HTTP response for what analyze_text did
HttpResponse(r) ==
  IF r.raised = "ValueError"
    THEN [status |-> 400, detail |-> r.detail, core |-> r.core]
    ELSE [status |-> 200, core |-> r.core, body |-> r.value]

\* emotion_arc_api_server: POST /analyze with a JSON body
http_analyze_emotion_arc(body) ==
  IF RequestErrors(body, 1) # {}
    THEN [status |-> 422, detail |-> "Validation Error", core |-> <<>>]
  ELSE HttpResponse(analyze_text(EmotionArcRequest(body)))

\* s[:n]
Prefix(s, n) == SubSeq(s, 1, Min(n, Len(s)))

\* emotion_report_generator.generate_emotion_report: the markdown report of
\* an analysis, kept as the values it is written from
generate_emotion_report(filename, scores, val_roll, emo_roll, summary, window_size) ==
  [report |-> filename, summary |-> summary, window_size |-> window_size]

\* the JSON-RPC response of the stdio handler for what analyze returned
StdioToolResponse(request_id, call, output_format, filename, r) ==
  IF r.raised # "none"
    THEN [id |-> request_id, error |-> [code |-> -32603], core |-> <<call>>]
  ELSE IF output_format = "report"
    THEN [id |-> request_id, core |-> <<call>>,
          result |-> generate_emotion_report(filename, r.scores, r.val_roll,
                                             r.emo_roll, r.summary, call.window)]
  ELSE [id |-> request_id, core |-> <<call>>,
        result |->
          [summary |-> r.summary,
           valence_progression |-> Prefix(r.val_roll, 15),
           dominant_emotions |->
             [k \in Range(Prefix(EMO_KEYS, 5)) |-> Prefix(r.emo_roll[k], 15)],
           analysis_parameters |->
             [window_size |-> call.window,
              text_length |-> Len(call.text),
              sentences_analyzed |-> Len(r.scores)]]]

\* the analyze_emotion_arc branch of the stdio handler
stdio_analyze(request_id, text, window_size, output_format, filename) ==
  IF text = <<>>
    THEN [id |-> request_id, error |-> [code |-> -32602], core |-> <<>>]
    ELSE StdioToolResponse(request_id, [text |-> text, window |-> window_size],
                           output_format, filename, analyze(text, window_size))

stdio_call(request_id, tool_name, arguments) ==
  IF tool_name # "analyze_emotion_arc"
    THEN [id |-> request_id, error |-> [code |-> -32601], core |-> <<>>]
    ELSE stdio_analyze(request_id,
                       Get(arguments, "text", <<>>),
                       Get(arguments, "window_size", DefaultWindow),
                       Get(arguments, "output_format", "report"),
                       Get(arguments, "filename", "text"))

\* emotion_arc_stdio_server.EmotionArcMCPServer.handle_call_tool
stdio_handle_call_tool(request_id, params) ==
  stdio_call(request_id, Get(params, "name", "None"), Get(params, "arguments", <<>>))

\* what main prints once analyze has returned
CliReport(call, r) ==
  IF r.raised # "none"
    THEN [raised |-> "SystemExit", detail |-> "Error analyzing text", core |-> <<call>>]
    ELSE [raised |-> "none", core |-> <<call>>,
          printed |-> [summary |-> r.summary, window |-> call.window]]

\* main from `analyze(text, window=args.window)' on
cli_analyze(text, window) == CliReport([text |-> text, window |-> window], analyze(text, window))

\* chapter_emotion_arc.main with no --csv, --json or --markdown: path is what
\* the input argument names, text what the file holds
cli_main(window, path, text) ==
  IF window <= 0 THEN [raised |-> "ValueError", core |-> <<>>]
  ELSE IF path = "missing" THEN [raised |-> "SystemExit", detail |-> "File not found",
                                 core |-> <<>>]
  ELSE IF path # "file" THEN [raised |-> "SystemExit", detail |-> "Path is not a file",
                              core |-> <<>>]
  ELSE cli_analyze(IF Strip(text) = <<>> THEN <<>> ELSE text, window)

\* python chapter_emotion_arc.py input [--window N]
CliMain ==
  /\ entry.pc = "idle"
  /\ \E w \in Optional("window", WindowInputs),
        path \in {"missing", "dir", "file"},
        text \in EntryTexts :
       /\ path # "file" => text = <<>>
       /\ entry' = [pc |-> "done", point |-> "cli",
                    window |-> Get(w, "window", DefaultWindow), text |-> text,
                    outcome |-> cli_main(Get(w, "window", DefaultWindow), path, text)]
  /\ UNCHANGED <<roll, arc, style, lex, cont, mech, struct, beats, srv, mtld, tool>>

\* a call_tool request reaches the MCP server
McpCallTool ==
  /\ entry.pc = "idle"
  /\ \E name \in {"analyze_emotion_arc", "other"},
        t \in Optional("text", EntryTexts),
        w \in Optional("window_size", WindowInputs),
        f \in Optional("output_format", {"json", "csv", "markdown", "xml"}),
        s \in Optional("include_sentences", {TRUE}) :
       LET arguments == t @@ w @@ f @@ s
       IN  /\ name = "other" => arguments = <<>>
           /\ entry' = [pc |-> "done", point |-> "mcp", arguments |-> arguments,
                        outcome |-> mcp_handle_call_tool(name, arguments)]
  /\ UNCHANGED <<roll, arc, style, lex, cont, mech, struct, beats, srv, mtld, tool>>

\* POST /analyze reaches the HTTP API server
HttpAnalyze ==
  /\ entry.pc = "idle"
  /\ \E t \in Optional("text", EntryTexts),
        w \in Optional("window_size", WindowInputs),
        f \in Optional("output_format", {"json", "csv", "markdown", "xml"}),
        s \in Optional("include_sentences", {TRUE}) :
       LET body == t @@ w @@ f @@ s
       IN  entry' = [pc |-> "done", point |-> "http", arguments |-> body,
                     outcome |-> http_analyze_emotion_arc(body)]
  /\ UNCHANGED <<roll, arc, style, lex, cont, mech, struct, beats, srv, mtld, tool>>

\* a tools/call request reaches the stdio server
StdioCallTool ==
  /\ entry.pc = "idle"
  /\ \E name \in {"analyze_emotion_arc", "other"},
        t \in Optional("text", EntryTexts),
        w \in Optional("window_size", WindowInputs),
        f \in Optional("output_format", {"json", "report"}) :
       LET arguments == t @@ w @@ f
           params == [name |-> name, arguments |-> arguments]
       IN  /\ name = "other" => arguments = <<>>
           /\ entry' = [pc |-> "done", point |-> "stdio", arguments |-> arguments,
                        outcome |-> stdio_handle_call_tool(1, params)]
  /\ UNCHANGED <<roll, arc, style, lex, cont, mech, struct, beats, srv, mtld, tool>>

(***************************************************************************)
(* chapter_style_readability: the helpers and the three readability        *)
(* formulas.  SENTENCE_SPLIT_RE and WORD_RE are the patterns of            *)
(* chapter_emotion_arc, so their matching is the one modelled above.       *)
(***************************************************************************)
\* the same with only the blanks stripped: line.rstrip(" ")
RstripBlanks(s) ==
  LET keep == {i \in 1..Len(s) :
                 \/ s[i] # " "
                 \/ \E j \in i..Len(s) :
                      /\ s[j] # " "
                      /\ \A k \in i..j : s[k] # "\n"}
  IN  AtIndices(s, keep)

\* line.rstrip() on every line of s: a whitespace character goes when only
\* whitespace follows it on its line
RstripLines(s) ==
  LET keep == {i \in 1..Len(s) :
                 \/ s[i] = "\n"
                 \/ \E j \in i..Len(s) :
                      /\ s[j] \notin Whitespace
                      /\ \A k \in i..j : s[k] # "\n"}
  IN  AtIndices(s, keep)

normalize_text(text) == RstripLines(ReplaceCRLF(text))

\* split_sentences once t is built
SplitCollapsed(t) ==
  IF t = <<>> THEN <<>> ELSE StripNonEmpty(SENTENCE_SPLIT_RE_split(t))

split_sentences(text) == SplitCollapsed(CollapseWhitespace(Strip(text)))

word_tokens(text) == WORD_RE_findall(text)

\* [aeiouyAEIOUY]+ on a lower-cased word
Vowels == {"a", "e", "i", "o", "u", "y"}

\* len(VOWEL_GROUPS_RE.findall(w))
VowelGroups(w) ==
  Cardinality({i \in 1..Len(w) : w[i] \in Vowels /\ (i = 1 \/ w[i - 1] \notin Vowels)})

\* w.endswith(suffix)
EndsWith(w, suffix) ==
  /\ Len(w) >= Len(suffix)
  /\ SubSeq(w, Len(w) - Len(suffix) + 1, Len(w)) = suffix

Max(a, b) == IF a > b THEN a ELSE b

\* count_syllables once w = word.lower() and syll = max(1, len(groups))
SilentE(w, syll) ==
  IF /\ EndsWith(w, <<"e">>)
     /\ ~(EndsWith(w, <<"l", "e">>) \/ EndsWith(w, <<"y", "e">>))
     /\ syll > 1
    THEN syll - 1
    ELSE syll

SyllablesOfLower(w) == IF w = <<>> THEN 0 ELSE SilentE(w, Max(1, VowelGroups(w)))

count_syllables(word) == SyllablesOfLower(str_lower(word))

\* str.isupper() / str.islower(): some cased character, and none of the
\* other case
isupper(s) == (\E i \in 1..Len(s) : s[i] \in Upper) /\ (\A i \in 1..Len(s) : s[i] \notin Lower)

islower(s) == (\E i \in 1..Len(s) : s[i] \in Lower) /\ (\A i \in 1..Len(s) : s[i] \notin Upper)

is_complex_word(word) ==
  /\ count_syllables(word) >= 3
  /\ ~(isupper(SubSeq(word, 1, Min(1, Len(word)))) /\ islower(SubSeq(word, 2, Len(word))))

\* a / b on ints
TrueDiv(a, b) == IF b = 0 THEN Raised("ZeroDivisionError") ELSE Returned(Quot(a, b))

\* round(p/q, 2) of a float that the binary arithmetic has left within an
\* ulp of p/q (q > 0): off a decimal tie it is the nearest hundredth; on a
\* tie the rounding error of the arithmetic decides, and up says which way
RoundFloat(p, q, up) ==
  LET f == (p * 100) \div q
      r == p * 100 - f * q
  IN  IF 2 * r < q THEN Quot(f, 100)
      ELSE IF 2 * r > q THEN Quot(f + 1, 100)
      ELSE IF up THEN Quot(f + 1, 100) ELSE Quot(f, 100)

\* round(num/den, 2) where the quotients ws = W/S and xw = X/W went into num/den
RoundedFormula(ws, xw, num, den, up) ==
  IF ws.raised # "none" THEN ws
  ELSE IF xw.raised # "none" THEN xw
  ELSE Returned(RoundFloat(num, den, up))

\* round(206.835 - 1.015*(W/S) - 84.6*(SYL/W), 2)
ReadingEaseFormula(W, S, SYL, up) ==
  RoundedFormula(TrueDiv(W, S), TrueDiv(SYL, W),
                 206835 * S * W - 1015 * W * W - 84600 * SYL * S, 1000 * S * W, up)

flesch_reading_ease(total_words, total_sentences, total_syllables, up) ==
  IF total_sentences = 0 \/ total_words = 0 THEN Returned(Float(0))
  ELSE ReadingEaseFormula(total_words, total_sentences, total_syllables, up)

\* round(0.39*(W/S) + 11.8*(SYL/W) - 15.59, 2)
KincaidFormula(W, S, SYL, up) ==
  RoundedFormula(TrueDiv(W, S), TrueDiv(SYL, W),
                 39 * W * W + 1180 * SYL * S - 1559 * S * W, 100 * S * W, up)

\* the same function with `and' in the guard
flesch_kincaid_grade_and(total_words, total_sentences, total_syllables, up) ==
  IF total_sentences = 0 /\ total_words = 0 THEN Returned(Float(0))
  ELSE KincaidFormula(total_words, total_sentences, total_syllables, up)

flesch_kincaid_grade(total_words, total_sentences, total_syllables, up) ==
  IF total_sentences = 0 \/ total_words = 0 THEN Returned(Float(0))
  ELSE KincaidFormula(total_words, total_sentences, total_syllables, up)

\* round(0.4 * ((W/S) + 100.0*(complex/W)), 2)
FogFormula(W, S, complex, up) ==
  RoundedFormula(TrueDiv(W, S), TrueDiv(complex, W),
                 4 * W * W + 400 * complex * S, 10 * S * W, up)

gunning_fog_index(total_words, total_sentences, complex_word_count, up) ==
  IF total_sentences = 0 \/ total_words = 0 THEN Returned(Float(0))
  ELSE FogFormula(total_words, total_sentences, complex_word_count, up)

\* the readability fields of the StyleReport, or the exception of a formula
StyleReport(total_words, total_sentences, total_syllables, complex_words, fre, fkg, fog) ==
  IF fre.raised # "none" THEN fre
  ELSE IF fkg.raised # "none" THEN fkg
  ELSE IF fog.raised # "none" THEN fog
  ELSE [raised |-> "none",
        flesch_reading_ease |-> fre.value,
        flesch_kincaid_grade |-> fkg.value,
        gunning_fog |-> fog.value,
        total_words |-> total_words,
        total_sentences |-> total_sentences,
        total_syllables |-> total_syllables,
        complex_words |-> complex_words]

\* analyze_style once the four counts are taken
AnalyzeStyleCounts(W, S, SYL, CX, ups) ==
  StyleReport(W, S, SYL, CX,
              flesch_reading_ease(W, S, SYL, ups.fre),
              flesch_kincaid_grade(W, S, SYL, ups.fkg),
              gunning_fog_index(W, S, CX, ups.fog))

\* analyze_style once sentences and words are built
AnalyzeStyleWords(sents, words, ups) ==
  AnalyzeStyleCounts(Len(words), Len(sents),
                     SumSeq([i \in 1..Len(words) |-> count_syllables(words[i])]),
                     Cardinality({i \in 1..Len(words) : is_complex_word(words[i])}),
                     ups)

\* analyze_style once text is normalized
AnalyzeStyleNormalized(text, ups) ==
  AnalyzeStyleWords(split_sentences(text), word_tokens(text), ups)

\* analyze_style, to the readability fields of its report: the fields that
\* follow in the report are computed from the same sentences and words and
\* feed nothing back into these.  ups says how a decimal tie falls in each
\* of the three formulas
analyze_style(text, ups) == AnalyzeStyleNormalized(normalize_text(text), ups)

\* the counts the formulas are called with
Counts == 0..MaxCount

TieBreaks == [fre : BOOLEAN, fkg : BOOLEAN, fog : BOOLEAN]

StylePieces ==
  {<<"b", "a", "n", "a", "n", "a">>, <<"A", "t", "e">>, <<" ">>, <<".">>, <<"\n">>}

StyleTexts == TextsUpTo(StylePieces, MaxPieces)

\* flesch_reading_ease(total_words, total_sentences, total_syllables) is called
FleschReadingEase ==
  /\ style.pc = "idle"
  /\ \E W \in Counts, S \in Counts, SYL \in Counts, up \in BOOLEAN :
       style' = [pc |-> "return", fn |-> "flesch_reading_ease", args |-> <<W, S, SYL>>,
                 result |-> flesch_reading_ease(W, S, SYL, up)]
  /\ UNCHANGED <<roll, arc, entry, lex, cont, mech, struct, beats, srv, mtld, tool>>

\* flesch_kincaid_grade(total_words, total_sentences, total_syllables) is called
FleschKincaidGrade ==
  /\ style.pc = "idle"
  /\ \E W \in Counts, S \in Counts, SYL \in Counts, up \in BOOLEAN :
       style' = [pc |-> "return", fn |-> "flesch_kincaid_grade", args |-> <<W, S, SYL>>,
                 result |-> flesch_kincaid_grade(W, S, SYL, up)]
  /\ UNCHANGED <<roll, arc, entry, lex, cont, mech, struct, beats, srv, mtld, tool>>

\* gunning_fog_index(total_words, total_sentences, complex_word_count) is called
GunningFogIndex ==
  /\ style.pc = "idle"
  /\ \E W \in Counts, S \in Counts, CX \in Counts, up \in BOOLEAN :
       style' = [pc |-> "return", fn |-> "gunning_fog_index", args |-> <<W, S, CX>>,
                 result |-> gunning_fog_index(W, S, CX, up)]
  /\ UNCHANGED <<roll, arc, entry, lex, cont, mech, struct, beats, srv, mtld, tool>>

\* analyze_style(text) is called
AnalyzeStyle ==
  /\ style.pc = "idle"
  /\ \E text \in StyleTexts, ups \in TieBreaks :
       style' = [pc |-> "return", fn |-> "analyze_style", text |-> text,
                 result |-> analyze_style(text, ups)]
  /\ UNCHANGED <<roll, arc, entry, lex, cont, mech, struct, beats, srv, mtld, tool>>

(***************************************************************************)
(* chapter_lexical_diversity: tokens, the type/token counts and the ratios *)
(* of the report that are quotients of counts.                             *)
(***************************************************************************)
lex_tokens(text) == tokens(ReplaceCRLF(text))

\* the function-word list
FUNCTION ==
  {<<"a">>, <<"a", "m">>, <<"a", "n">>, <<"a", "n", "d">>, <<"a", "r", "e">>,
   <<"a", "s">>, <<"a", "t">>, <<"b", "e">>, <<"b", "e", "e", "n">>, <<"b", "u", "t">>,
   <<"b", "y">>, <<"d", "i", "d">>, <<"d", "o">>, <<"d", "o", "e", "s">>,
   <<"e", "l", "s", "e">>, <<"f", "o", "r">>, <<"f", "r", "o", "m">>,
   <<"h", "a", "d">>, <<"h", "a", "s">>, <<"h", "a", "v", "e">>, <<"h", "e">>,
   <<"h", "e", "r">>, <<"h", "e", "r", "e">>, <<"h", "i", "s">>, <<"h", "o", "w">>,
   <<"i">>, <<"i", "f">>, <<"i", "n">>, <<"i", "s">>, <<"i", "t">>, <<"m", "y">>,
   <<"n", "o">>, <<"n", "o", "t">>, <<"o", "f">>, <<"o", "n">>, <<"o", "r">>,
   <<"o", "u", "r">>, <<"s", "h", "e">>, <<"s", "o">>, <<"t", "h", "a", "t">>,
   <<"t", "h", "e">>, <<"t", "h", "e", "i", "r">>, <<"t", "h", "e", "n">>,
   <<"t", "h", "e", "r", "e">>, <<"t", "h", "e", "y">>, <<"t", "h", "i", "s">>,
   <<"t", "o">>, <<"w", "a", "s">>, <<"w", "e">>, <<"w", "e", "r", "e">>,
   <<"w", "h", "a", "t">>, <<"w", "h", "e", "n">>, <<"w", "h", "e", "r", "e">>,
   <<"w", "h", "i", "c", "h">>, <<"w", "h", "o">>, <<"w", "h", "o", "m">>,
   <<"w", "h", "o", "s", "e">>, <<"w", "h", "y">>, <<"w", "i", "t", "h">>,
   <<"y", "o", "u">>, <<"y", "o", "u", "r">>}

\* the number of words that occur exactly f times: sum(1 for w, f in c.items() if f == ...)
TypesWithFrequency(words, f) ==
  Cardinality({w \in Range(words) : Cardinality({i \in 1..Len(words) : words[i] = w}) = f})

type_token_stats(words) ==
  [N |-> Len(words), V |-> Cardinality(Range(words)),
   V1 |-> TypesWithFrequency(words, 1), V2 |-> TypesWithFrequency(words, 2)]

\* the same division with the operands taken in the other order
safe_div_swapped(a, b) == IF a # 0 THEN Quot(b, a) ELSE Float(0)

\* a / b if b else 0.0, on counts
safe_div(a, b) == IF b # 0 THEN Quot(a, b) ELSE Float(0)

\* len(set(seg)) / window for seg = words[i:i+window], i 0-based
SegmentTTR(words, i, window) ==
  Quot(Cardinality({words[k] : k \in (i + 1)..(i + window)}), window)

moving_window_TTR(words, window) ==
  IF window <= 0 THEN <<>>
  ELSE IF Len(words) < window
    THEN IF words # <<>> THEN <<safe_div(Cardinality(Range(words)), Len(words))>> ELSE <<>>
  ELSE [i \in 1..(Len(words) - window + 1) |-> SegmentTTR(words, i - 1, window)]

\* a < b on floats
FloatLess(a, b) == a.num * b.den < b.num * a.den

\* round(x, 3)
Round3(x) == RoundTo(x.num, x.den, 1000)

content_ratio(words) ==
  IF words = <<>> THEN Float(0)
  ELSE Quot(Cardinality({i \in 1..Len(words) : words[i] \notin FUNCTION}), Len(words))

\* A float that is no quotient of counts is kept as the term of the
\* expression that computes it: [log |-> n], [sqrt |-> n], [div |-> <<a, b>>]
\* and so on.  A term stands for the one non-zero float that expression
\* evaluates to, so that a term equals Float(0) never and another term only
\* when both were computed the same way.
IsRational(x) == "num" \in DOMAIN x

\* math.log on a count: log(1) is 0.0, and a count below 1 is a domain error
math_log(n) ==
  IF n <= 0 THEN Raised("ValueError")
  ELSE IF n = 1 THEN Returned(Float(0))
  ELSE Returned([log |-> n])

\* math.sqrt on a count: exact on a perfect square
math_sqrt(n) ==
  IF n < 0 THEN Raised("ValueError")
  ELSE IF \E k \in 0..n : k * k = n
    THEN Returned(Float(CHOOSE k \in 0..n : k * k = n))
    ELSE Returned([sqrt |-> n])

\* a / b on floats, b not 0.0
FloatDiv(a, b) ==
  IF a = Float(0) THEN Float(0)
  ELSE IF a = b THEN Float(1)
  ELSE IF IsRational(a) /\ IsRational(b)
    THEN IF b.num > 0 THEN Quot(a.num * b.den, a.den * b.num)
         ELSE Quot(-(a.num * b.den), a.den * (-b.num))
    ELSE [div |-> <<a, b>>]

\* a - b on floats
FloatSub(a, b) ==
  IF a = b THEN Float(0)
  ELSE IF IsRational(a) /\ IsRational(b)
    THEN Quot(a.num * b.den - b.num * a.den, a.den * b.den)
  ELSE IF b = Float(0) THEN a
  ELSE [sub |-> <<a, b>>]

\* a ** 2 on floats
FloatSquare(a) ==
  IF IsRational(a) THEN Quot(a.num * a.num, a.den * a.den) ELSE [square |-> a]

\* a / b if b else 0.0, on floats
safe_div_floats(a, b) == IF b # Float(0) THEN FloatDiv(a, b) ELSE Float(0)

(***************************************************************************)
(* Python floats in the window statistics of chapter_lexical_diversity.    *)
(* A positive float is [m, e]: m is its significand, a sequence of         *)
(* Precision binary digits that starts with 1, and the float is m * 2^e.   *)
(* 0.0 is [m |-> <<>>, e |-> 0]. Every operation rounds to nearest, ties   *)
(* to even, as the C double of CPython does; the numbers of the window     *)
(* statistics are far from overflow and underflow.                         *)
(***************************************************************************)
\* binary digits of the significand of a float
Precision == 53

\* binary digits a quotient is carried to before it is rounded
QuotientDigits == Precision + 13

DoubleZero == [m |-> <<>>, e |-> 0]

ZeroDigits(n) == [i \in 1..n |-> 0]

RECURSIVE DigitsOfNat(_)
DigitsOfNat(n) == IF n = 0 THEN <<>> ELSE Append(DigitsOfNat(n \div 2), n % 2)

RECURSIVE NatOfDigits(_)
NatOfDigits(ds) ==
  IF ds = <<>> THEN 0 ELSE 2 * NatOfDigits(SubSeq(ds, 1, Len(ds) - 1)) + ds[Len(ds)]

\* the digits without their leading zeros
StripZeros(ds) ==
  IF \A i \in 1..Len(ds) : ds[i] = 0 THEN <<>>
  ELSE SubSeq(ds, CHOOSE i \in 1..Len(ds) : ds[i] = 1 /\ \A j \in 1..(i - 1) : ds[j] = 0,
              Len(ds))

PadLeft(ds, n) == ZeroDigits(n - Len(ds)) \o ds

\* the digits in groups of LimbDigits, a group being a number below LimbBase
LimbDigits == 13

LimbBase == 2 ^ LimbDigits

LimbsOfPadded(ds) ==
  [j \in 1..(Len(ds) \div LimbDigits) |->
     NatOfDigits(SubSeq(ds, LimbDigits * (j - 1) + 1, LimbDigits * j))]

ToLimbs(ds) ==
  LimbsOfPadded(PadLeft(ds, LimbDigits * ((Len(ds) + LimbDigits - 1) \div LimbDigits)))

FromLimbs(ls) ==
  [i \in 1..(LimbDigits * Len(ls)) |->
     (ls[(i - 1) \div LimbDigits + 1] \div (2 ^ (LimbDigits - 1 - ((i - 1) % LimbDigits)))) % 2]

\* a + b + carry for two sequences of groups of one length
RECURSIVE AddLimbs(_, _, _)
AddLimbs(a, b, carry) ==
  IF a = <<>> THEN <<carry>>
  ELSE Append(AddLimbs(SubSeq(a, 1, Len(a) - 1), SubSeq(b, 1, Len(b) - 1),
                       (a[Len(a)] + b[Len(b)] + carry) \div LimbBase),
              (a[Len(a)] + b[Len(b)] + carry) % LimbBase)

\* a + b for digit sequences of any lengths
SumOfPadded(a, b) == StripZeros(FromLimbs(AddLimbs(ToLimbs(a), ToLimbs(b), 0)))

SumDigits(a, b) ==
  SumOfPadded(PadLeft(a, Max(Len(a), Len(b))), PadLeft(b, Max(Len(a), Len(b))))

\* the significand after it was rounded up by one unit in its last place
RoundedUp(ds, e) ==
  IF Len(SumDigits(ds, <<1>>)) > Precision
    THEN [m |-> SubSeq(SumDigits(ds, <<1>>), 1, Precision), e |-> e + 1]
    ELSE [m |-> SumDigits(ds, <<1>>), e |-> e]

\* the float nearest to ds * 2^e (+ a positive rest below the last digit when
\* sticky), ds without leading zeros
RoundToDouble(ds, e, sticky) ==
  IF ds = <<>> THEN DoubleZero
  ELSE IF Len(ds) <= Precision
    THEN [m |-> ds \o ZeroDigits(Precision - Len(ds)), e |-> e - (Precision - Len(ds))]
  ELSE IF /\ ds[Precision + 1] = 1
          /\ \/ sticky
             \/ \E i \in (Precision + 2)..Len(ds) : ds[i] = 1
             \/ ds[Precision] = 1
    THEN RoundedUp(SubSeq(ds, 1, Precision), e + (Len(ds) - Precision))
    ELSE [m |-> SubSeq(ds, 1, Precision), e |-> e + (Len(ds) - Precision)]

\* long division of the groups from position i on by d < 2^17: the groups q
\* of the quotient and the rest r
RECURSIVE DivideLimbs(_, _, _, _, _)
DivideLimbs(ls, i, d, r, q) ==
  IF i > Len(ls) THEN [q |-> q, r |-> r]
  ELSE DivideLimbs(ls, i + 1, d, (r * LimbBase + ls[i]) % d,
                   Append(q, (r * LimbBase + ls[i]) \div d))

DivideDigits(ds, d) == DivideLimbs(ToLimbs(ds), 1, d, 0, <<>>)

RoundQuotient(qr, e) == RoundToDouble(StripZeros(FromLimbs(qr.q)), e, qr.r # 0)

\* x / d for a float x and an int d > 0
DoubleDivInt(x, d) ==
  IF x = DoubleZero THEN DoubleZero
  ELSE RoundQuotient(DivideDigits(x.m \o ZeroDigits(QuotientDigits), d),
                     x.e - QuotientDigits)

\* a / b for ints a >= 0 and b > 0
DoubleOfQuot(a, b) ==
  RoundQuotient(DivideDigits(DigitsOfNat(a) \o ZeroDigits(QuotientDigits), b),
                -QuotientDigits)

\* the float of a quotient of counts
ToDouble(x) == DoubleOfQuot(x.num, x.den)

\* x + y for floats x, y >= 0
DoubleAddAligned(x, y, e) ==
  RoundToDouble(SumDigits(x.m \o ZeroDigits(x.e - e), y.m \o ZeroDigits(y.e - e)), e, FALSE)

DoubleAdd(x, y) ==
  IF x = DoubleZero THEN y
  ELSE IF y = DoubleZero THEN x
  ELSE DoubleAddAligned(x, y, Min(x.e, y.e))

\* x < y for floats x, y >= 0
DoubleLess(x, y) ==
  IF y = DoubleZero THEN FALSE
  ELSE IF x = DoubleZero THEN TRUE
  ELSE IF x.e # y.e THEN x.e < y.e
  ELSE \E i \in 1..Precision :
         /\ x.m[i] < y.m[i]
         /\ \A j \in 1..(i - 1) : x.m[j] = y.m[j]

\* sum(win), added from the left, starting from the int 0
RECURSIVE DoubleSumFrom(_, _, _)
DoubleSumFrom(win, i, total) ==
  IF i > Len(win) THEN total
  ELSE DoubleSumFrom(win, i + 1, DoubleAdd(total, win[i]))

DoubleSum(win) == DoubleSumFrom(win, 1, DoubleZero)

\* min(win) and max(win): the first of the least, the first of the greatest
DoubleMin(win) ==
  win[CHOOSE i \in 1..Len(win) :
        /\ \A j \in 1..Len(win) : ~DoubleLess(win[j], win[i])
        /\ \A j \in 1..(i - 1) : DoubleLess(win[i], win[j])]

DoubleMax(win) ==
  win[CHOOSE i \in 1..Len(win) :
        /\ \A j \in 1..Len(win) : ~DoubleLess(win[i], win[j])
        /\ \A j \in 1..(i - 1) : DoubleLess(win[j], win[i])]

\* ds * 1000 = ds * (2^10 - 2^4 - 2^3), as 2^9 + 2^8 + 2^7 + 2^6 + 2^5 + 2^3
TimesThousand(ds) ==
  SumDigits(SumDigits(SumDigits(ds \o ZeroDigits(9), ds \o ZeroDigits(8)),
                      SumDigits(ds \o ZeroDigits(7), ds \o ZeroDigits(6))),
            SumDigits(ds \o ZeroDigits(5), ds \o ZeroDigits(3)))

\* round-half-even of whole + fraction, the fraction given by its digits
RoundHalfEvenDigits(whole, fraction) ==
  IF fraction = <<>> \/ fraction[1] = 0 THEN whole
  ELSE IF \E i \in 2..Len(fraction) : fraction[i] = 1 THEN whole + 1
  ELSE IF whole % 2 = 0 THEN whole ELSE whole + 1

\* round(x * 1000) from the digits of x.m * 1000, of which the last n are
\* behind the point
ThousandthsOf(ds, n) ==
  RoundHalfEvenDigits(NatOfDigits(SubSeq(ds, 1, Len(ds) - n)),
                      SubSeq(ds, Len(ds) - n + 1, Len(ds)))

\* round(x, 3) for a float 0 <= x < 2^20: the decimal with three places that
\* is nearest to the float, ties to even
Round3Double(x) ==
  IF x = DoubleZero THEN Float(0)
  ELSE Quot(ThousandthsOf(PadLeft(TimesThousand(x.m), -x.e), -x.e), 1000)

\* the floats of the list moving_window_TTR returns
RECURSIVE DoublesFrom(_, _, _)
DoublesFrom(win, i, out) ==
  IF i > Len(win) THEN out ELSE DoublesFrom(win, i + 1, Append(out, ToDouble(win[i])))

DoublesOf(win) == DoublesFrom(win, 1, <<>>)

\* win_min, win_avg, win_max = min(win), sum(win)/len(win), max(win)
WindowStatsOf(win) ==
  [win_min |-> DoubleMin(win),
   win_avg |-> DoubleDivInt(DoubleSum(win), Len(win)),
   win_max |-> DoubleMax(win)]

\* the three window statistics of analyze, 0.0 each when win is empty
WindowStats(win) ==
  IF win # <<>> THEN WindowStatsOf(DoublesOf(win))
  ELSE [win_min |-> DoubleZero, win_avg |-> DoubleZero, win_max |-> DoubleZero]

\* safe_div(V, math.sqrt(max(N,1))) once the root is taken
RootTTRQuotient(V, root) ==
  IF root.raised # "none" THEN root
  ELSE Returned(safe_div_floats(Float(V), root.value))

\* safe_div(math.log(max(V,1)), math.log(max(N,1))) once the logarithms are taken
HerdanQuotient(lnV, lnN) ==
  IF lnV.raised # "none" THEN lnV
  ELSE IF lnN.raised # "none" THEN lnN
  ELSE Returned(safe_div_floats(lnV.value, lnN.value))

\* the same function with the counts handed to math.log as they are
herdan_c_unguarded(V, N) == HerdanQuotient(math_log(V), math_log(N))

herdan_c(V, N) == HerdanQuotient(math_log(Max(V, 1)), math_log(Max(N, 1)))

\* safe_div(lnN - math.log(max(V,1)), lnN**2) once the logarithms are taken
MaasQuotient(lnN, lnV) ==
  IF lnN.raised # "none" THEN lnN
  ELSE IF lnV.raised # "none" THEN lnV
  ELSE Returned(safe_div_floats(FloatSub(lnN.value, lnV.value), FloatSquare(lnN.value)))

maas_a(V, N) == MaasQuotient(math_log(Max(N, 1)), math_log(Max(V, 1)))

\* round(x, 3) on any float
Round3Float(x) == IF IsRational(x) THEN Round3(x) ELSE [round3 |-> x]

\* the LexReport analyze returns, or the exception of a formula
LexReport(stats, TTR, RootTTR, C, a, win, cr) ==
  IF RootTTR.raised # "none" THEN RootTTR
  ELSE IF C.raised # "none" THEN C
  ELSE IF a.raised # "none" THEN a
  ELSE
  [raised |-> "none",
   N_tokens |-> stats.N, V_types |-> stats.V, V1_hapax |-> stats.V1, V2_dis |-> stats.V2,
   TTR |-> Round3(TTR),
   RootTTR |-> Round3Float(RootTTR.value),
   HerdanC |-> Round3Float(C.value),
   MaasA |-> Round3Float(a.value),
   window_TTR_min |-> Round3Double(win.win_min),
   window_TTR_avg |-> Round3Double(win.win_avg),
   window_TTR_max |-> Round3Double(win.win_max),
   content_token_ratio |-> Round3(cr)]

\* analyze once N, V, V1, V2 are counted
LexAnalyzeStats(words, stats, window) ==
  LexReport(stats, safe_div(stats.V, stats.N),
            RootTTRQuotient(stats.V, math_sqrt(Max(stats.N, 1))),
            herdan_c(stats.V, stats.N), maas_a(stats.V, stats.N),
            WindowStats(moving_window_TTR(words, window)), content_ratio(words))

\* analyze once words is built
LexAnalyzeWords(words, window) == LexAnalyzeStats(words, type_token_stats(words), window)

\* chapter_lexical_diversity.analyze(text, window)
lex_analyze(text, window) == LexAnalyzeWords(lex_tokens(text), window)

LexPieces ==
  {<<"c", "a", "t", " ">>, <<"C", "a", "t", ".">>, <<"t", "h", "e", " ">>, <<"\r">>}

LexTexts == TextsUpTo(LexPieces, MaxTokens)

\* --window: 200 when it is not given
LexDefaultWindow == 200

LexWindows == Windows \cup {LexDefaultWindow}

\* analyze(text, window) of chapter_lexical_diversity is called and returns
LexAnalyze ==
  /\ lex.pc = "idle"
  /\ \E text \in LexTexts, window \in LexWindows :
       lex' = [pc |-> "return", text |-> text, window |-> window,
               report |-> lex_analyze(text, window)]
  /\ UNCHANGED <<roll, arc, entry, style, cont, mech, struct, beats, srv, mtld, tool>>

\* texts of one or two words, long enough for several windows
RunPieces == {<<"a", " ">>, <<"b", " ">>}

RunTexts == TextsUpTo(RunPieces, MaxRun)

RunWindows == (0..MaxRunWindow) \cup {LexDefaultWindow}

\* analyze(text, window) is called and returns; the frame keeps words, win
\* and the three window statistics next to the report
LexAnalyzeWindows ==
  /\ lex.pc = "idle"
  /\ \E text \in RunTexts, window \in RunWindows :
       lex' = [pc |-> "return", text |-> text, window |-> window,
               words |-> lex_tokens(text),
               win |-> moving_window_TTR(lex_tokens(text), window),
               stats |-> WindowStats(moving_window_TTR(lex_tokens(text), window)),
               report |-> lex_analyze(text, window)]
  /\ UNCHANGED <<roll, arc, entry, style, cont, mech, struct, beats, srv, mtld, tool>>

(***************************************************************************)
(* chapter_continuity_consistency: the fuzzy matching of names.            *)
(***************************************************************************)
DigitSeq == <<"0", "1", "2", "3", "4", "5", "6", "7", "8", "9">>

\* the characters of a token or a phrase in the order of their code points
CodeOrder == <<" ", "'", "-">> \o DigitSeq \o UpperSeq \o LowerSeq

CharCode(c) == CHOOSE i \in DOMAIN CodeOrder : CodeOrder[i] = c

\* a < b on str
StrLess(a, b) ==
  \E k \in 1..(Min(Len(a), Len(b)) + 1) :
    /\ \A i \in 1..(k - 1) : a[i] = b[i]
    /\ \/ k > Len(a) /\ k <= Len(b)
       \/ k <= Len(a) /\ k <= Len(b) /\ CharCode(a[k]) < CharCode(b[k])

\* sorted(S) for a set of str
sorted(S) ==
  [r \in 1..Cardinality(S) |->
     CHOOSE x \in S : Cardinality({y \in S : StrLess(y, x)}) = r - 1]

\* the blocks a[i:i+k] == b[j:j+k], k > 0, inside a[alo:ahi] and b[blo:bhi]
CommonBlocks(a, b, alo, ahi, blo, bhi) ==
  {m \in (alo..(ahi - 1)) \X (blo..(bhi - 1)) \X (1..Min(ahi - alo, bhi - blo)) :
     /\ m[1] + m[3] <= ahi
     /\ m[2] + m[3] <= bhi
     /\ \A d \in 1..m[3] : a[m[1] + d] = b[m[2] + d]}

\* SequenceMatcher.find_longest_match with no junk: the longest block, of
\* those the one that starts earliest in a, of those the earliest in b
find_longest_match(a, b, alo, ahi, blo, bhi) ==
  LET blocks == CommonBlocks(a, b, alo, ahi, blo, bhi)
  IN  IF blocks = {} THEN <<alo, blo, 0>>
      ELSE CHOOSE m \in blocks :
             \A o \in blocks :
               \/ m[3] > o[3]
               \/ m[3] = o[3] /\ m[1] < o[1]
               \/ m[3] = o[3] /\ m[1] = o[1] /\ m[2] <= o[2]

\* sum of the sizes SequenceMatcher.get_matching_blocks finds in
\* a[alo:ahi] and b[blo:bhi]: the longest block, then what matches to its
\* left and to its right
RECURSIVE MatchedFrom(_, _, _, _, _, _, _)
MatchedFrom(a, b, alo, ahi, blo, bhi, m) ==
  IF m[3] = 0 THEN 0
  ELSE m[3]
       + (IF alo < m[1] /\ blo < m[2]
            THEN MatchedFrom(a, b, alo, m[1], blo, m[2],
                             find_longest_match(a, b, alo, m[1], blo, m[2]))
            ELSE 0)
       + (IF m[1] + m[3] < ahi /\ m[2] + m[3] < bhi
            THEN MatchedFrom(a, b, m[1] + m[3], ahi, m[2] + m[3], bhi,
                             find_longest_match(a, b, m[1] + m[3], ahi, m[2] + m[3], bhi))
            ELSE 0)

Matched(a, b) ==
  MatchedFrom(a, b, 0, Len(a), 0, Len(b), find_longest_match(a, b, 0, Len(a), 0, Len(b)))

\* difflib.SequenceMatcher(None, a, b).ratio(): 2.0*matches/length, 1.0 on
\* two empty strings
ratio(a, b) ==
  IF Len(a) + Len(b) > 0 THEN Quot(2 * Matched(a, b), Len(a) + Len(b)) ELSE Float(1)

\* a >= b on floats
FloatGeq(a, b) == ~FloatLess(a, b)

\* the keys of buckets in the order they are inserted
BucketKeys(uniq) ==
  AtIndices([i \in 1..Len(uniq) |-> LowerChar(uniq[i][1])],
            {i \in 1..Len(uniq) :
               \A j \in 1..(i - 1) : LowerChar(uniq[j][1]) # LowerChar(uniq[i][1])})

\* buckets[key]
Bucket(uniq, key) == SelectSeq(uniq, LAMBDA t : LowerChar(t[1]) = key)

\* the (i, j) with i < j < n in the order the two loops visit them
IndexPairs(n) ==
  LET pairs == {p \in (1..n) \X (1..n) : p[1] < p[2]}
  IN  [r \in 1..Cardinality(pairs) |->
         CHOOSE p \in pairs :
           Cardinality({q \in pairs : q[1] < p[1] \/ (q[1] = p[1] /\ q[2] < p[2])}) = r - 1]

\* what the loop body appends for a, b: nothing, or (a, b, round(score, 3))
ScoredPair(a, b, score, cutoff) ==
  IF FloatGeq(score, cutoff) THEN <<[a |-> a, b |-> b, score |-> Round3(score)]>> ELSE <<>>

\* the loop body without `if a.lower() == b.lower(): continue'
ComparePairAlways(a, b, cutoff) ==
  ScoredPair(a, b, ratio(str_lower(a), str_lower(b)), cutoff)

ComparePair(a, b, cutoff) ==
  IF str_lower(a) = str_lower(b) THEN <<>>
  ELSE ScoredPair(a, b, ratio(str_lower(a), str_lower(b)), cutoff)

\* the results of one bucket, from its r-th pair on
RECURSIVE BucketResults(_, _, _, _)
BucketResults(bucket, pairs, r, cutoff) ==
  IF r > Len(pairs) THEN <<>>
  ELSE ComparePair(bucket[pairs[r][1]], bucket[pairs[r][2]], cutoff)
         \o BucketResults(bucket, pairs, r + 1, cutoff)

\* the results of the buckets from the k-th key on
RECURSIVE AllBucketResults(_, _, _, _)
AllBucketResults(uniq, keys, k, cutoff) ==
  IF k > Len(keys) THEN <<>>
  ELSE BucketResults(Bucket(uniq, keys[k]), IndexPairs(Len(Bucket(uniq, keys[k]))), 1, cutoff)
         \o AllBucketResults(uniq, keys, k + 1, cutoff)

\* probable_variants once uniq is sorted
VariantsOfUniq(uniq, cutoff) == AllBucketResults(uniq, BucketKeys(uniq), 1, cutoff)

probable_variants(toks, min_len, cutoff) ==
  VariantsOfUniq(sorted({toks[i] : i \in {j \in 1..Len(toks) : Len(toks[j]) >= min_len}}),
                 cutoff)

\* min_len: int = 3
DefaultMinLen == 3

\* cutoff: float = 0.88
DefaultCutoff == Quot(88, 100)

\* prob_vars = probable_variants(proper_like, cutoff=0.9)
ContinuityCutoff == Quot(9, 10)

\* the names the matching is tried on
Names ==
  {<<"T", "h", "e", "a">>, <<"T", "h", "i", "a">>, <<"J", "o", "h", "n">>,
   <<"T", "h", "e", "a", "a">>, <<"t", "h", "e", "a">>, <<"J", "o">>}

NameLists == SeqsUpTo(Names, MaxNames)

\* probable_variants(tokens) is called with the default min_len and cutoff
ProbableVariants ==
  /\ cont.pc = "idle"
  /\ \E toks \in NameLists :
       cont' = [pc |-> "return", fn |-> "probable_variants", tokens |-> toks,
                result |-> probable_variants(toks, DefaultMinLen, DefaultCutoff)]
  /\ UNCHANGED <<roll, arc, entry, style, lex, mech, struct, beats, srv, mtld, tool>>

\* the min_len and cutoff values the matching is called with
MinLens == {1, DefaultMinLen, DefaultMinLen + 2}

Cutoffs == {Quot(1, 2), DefaultCutoff, ContinuityCutoff}

\* probable_variants(tokens, min_len, cutoff) is called and returns
ProbableVariantsWith ==
  /\ cont.pc = "idle"
  /\ \E toks \in NameLists, min_len \in MinLens, cutoff \in Cutoffs :
       cont' = [pc |-> "return", fn |-> "probable_variants", tokens |-> toks,
                min_len |-> min_len, cutoff |-> cutoff,
                result |-> probable_variants(toks, min_len, cutoff)]
  /\ UNCHANGED <<roll, arc, entry, style, lex, mech, struct, beats, srv, mtld, tool>>

(***************************************************************************)
(* chapter_mechanics_cleanup: the repetition checks.                       *)
(***************************************************************************)
\* Counter(seq), counted from its i-th element on into c
RECURSIVE CounterFrom(_, _, _)
CounterFrom(c, seq, i) ==
  IF i > Len(seq) THEN c ELSE CounterFrom(CounterAdd(c, seq[i], 1), seq, i + 1)

Counter(seq) == CounterFrom(EmptyCounter, seq, 1)

\* del c[k]
CounterDel(c, k) ==
  [keys |-> SelectSeq(c.keys, LAMBDA x : x # k),
   count |-> [x \in DOMAIN c.count \ {k} |-> c.count[x]]]

\* list(c.items())
CounterItems(c) == [i \in 1..Len(c.keys) |-> <<c.keys[i], c.count[c.keys[i]]>>]

\* the (key, count) pairs of the keys that most_common picked
ItemsOf(c, picked) == [i \in 1..Len(picked) |-> <<picked[i], c.count[picked[i]]>>]

\* c.most_common(n) as (key, count) pairs
most_common_items(c, n) == ItemsOf(c, most_common(c, n))

\* c.most_common()
most_common_all(c) == most_common_items(c, Len(c.keys))

\* the stopwords of repetition_checks
STOP ==
  {<<"a">>, <<"a", "n">>, <<"a", "n", "d">>, <<"a", "r", "e">>, <<"a", "s">>,
   <<"a", "t">>, <<"b", "e">>, <<"b", "e", "e", "n">>, <<"b", "u", "t">>, <<"b", "y">>,
   <<"f", "o", "r">>, <<"f", "r", "o", "m">>, <<"h", "e">>, <<"h", "e", "r">>,
   <<"h", "i", "s">>, <<"i">>, <<"i", "f">>, <<"i", "n">>, <<"i", "s">>, <<"i", "t">>,
   <<"m", "y">>, <<"n", "o">>, <<"n", "o", "t">>, <<"o", "f">>, <<"o", "n">>,
   <<"o", "r">>, <<"o", "u", "r">>, <<"s", "h", "e">>, <<"s", "o">>,
   <<"t", "h", "a", "t">>, <<"t", "h", "e">>, <<"t", "h", "e", "i", "r">>,
   <<"t", "h", "e", "n">>, <<"t", "h", "e", "y">>, <<"t", "h", "i", "s">>,
   <<"t", "o">>, <<"w", "a", "s">>, <<"w", "e">>, <<"w", "e", "r", "e">>,
   <<"w", "i", "t", "h">>, <<"y", "o", "u">>, <<"y", "o", "u", "r">>}

\* N = 6: threshold occurrences per window
ThresholdPerWindow == 6

\* window: int = 80
DefaultRepetitionWindow == 80

mech_tokens(text) == WORD_RE_findall(text)

\* [w.lower() for w in tokens(text)]
LowerAll(toks) == [i \in 1..Len(toks) |-> str_lower(toks[i])]

\* the same list with the word repeated one place further on
ImmediateDupsSkipOne(words) ==
  AtIndices(words, {i \in 1..(Len(words) - 2) : words[i] = words[i + 2]})

\* the words[i] with words[i] == words[i+1], in order
ImmediateDups(words) ==
  AtIndices(words, {i \in 1..(Len(words) - 1) : words[i] = words[i + 1]})

\* [w for w in words if w not in STOP and len(w) > 2]
StyleWords(words) == SelectSeq(words, LAMBDA w : w \notin STOP /\ Len(w) > 2)

\* counts after `counts[old] -= 1' without the del
CountsKeepZero(counts, old) == [counts EXCEPT !.count[old] = @ - 1]

\* counts after `counts[old] -= 1' and the del that may follow
CountsWithout(counts, old) ==
  IF counts.count[old] - 1 <= 0 THEN CounterDel(counts, old)
  ELSE [counts EXCEPT !.count[old] = @ - 1]

\* dq and counts after the popleft, when the queue has outgrown the window
SlideWindow(dq, counts, window) ==
  IF Len(dq) > window
    THEN [dq |-> Tail(dq), counts |-> CountsWithout(counts, Head(dq))]
    ELSE [dq |-> dq, counts |-> counts]

\* for ww, c in list(counts.items()): flag the words over the threshold
RECURSIVE FlagOver(_, _, _)
FlagOver(flagged, items, j) ==
  IF j > Len(items) THEN flagged
  ELSE FlagOver(IF items[j][2] >= ThresholdPerWindow /\ items[j][1] \notin STOP
                  THEN CounterAdd(flagged, items[j][1], 1)
                  ELSE flagged,
                items, j + 1)

\* the loop body once the window has slid
FlagWindow(slid, flagged) ==
  [dq |-> slid.dq, counts |-> slid.counts,
   flagged |-> FlagOver(flagged, CounterItems(slid.counts), 1)]

\* one pass of `for i, w in enumerate(words)'
RepetitionStep(st, w, window) ==
  FlagWindow(SlideWindow(Append(st.dq, w), CounterAdd(st.counts, w, 1), window),
             st.flagged)

RepetitionStart == [dq |-> <<>>, counts |-> EmptyCounter, flagged |-> EmptyCounter]

RECURSIVE RepetitionLoop(_, _, _, _)
RepetitionLoop(st, words, i, window) ==
  IF i > Len(words) THEN st
  ELSE RepetitionLoop(RepetitionStep(st, words[i], window), words, i + 1, window)

\* the dict repetition_checks returns
RepetitionReport(words, immediate_dups, counter, st, window) ==
  [immediate_duplicate_words |-> most_common_all(Counter(immediate_dups)),
   top_repeated_words_overall |-> most_common_items(counter, 20),
   window_repetition_flags |-> most_common_items(st.flagged, 20),
   window_size |-> window,
   threshold_per_window |-> ThresholdPerWindow,
   total_words |-> Len(words)]

\* repetition_checks once words is built
RepetitionOfWords(words, window) ==
  RepetitionReport(words, ImmediateDups(words), Counter(StyleWords(words)),
                   RepetitionLoop(RepetitionStart, words, 1, window), window)

repetition_checks(text, window) == RepetitionOfWords(LowerAll(mech_tokens(text)), window)

MechPieces ==
  {<<"T", "h", "e", " ", "t", "h", "e", " ">>, <<"t", "h", "e", " ", "t", "h", "e", " ">>,
   <<"c", "a", "t", " ">>,
   <<"c", "a", "t", ".", "C", "a", "t", " ", "c", "a", "t", " ">>,
   <<"s", "a", "t", ".">>, <<"t", "h", "e", "-">>}

MechTexts == TextsUpTo(MechPieces, MaxPieces)

RepetitionWindows == {0, 1, MaxWindow, DefaultRepetitionWindow}

\* repetition_checks(text, window) is called and returns
RepetitionChecks ==
  /\ mech.pc = "idle"
  /\ \E text \in MechTexts, window \in RepetitionWindows :
       mech' = [pc |-> "return", fn |-> "repetition_checks", text |-> text,
                window |-> window, result |-> repetition_checks(text, window)]
  /\ UNCHANGED <<roll, arc, entry, style, lex, cont, struct, beats, srv, mtld, tool>>

\* texts whose words reach the threshold, for the loop taken one pass at a time
LoopPieces ==
  {<<"c", "a", "t", ".", "C", "a", "t", " ", "c", "a", "t", " ">>,
   <<"T", "h", "e", " ", "t", "h", "e", " ">>, <<"s", "a", "t", ".">>}

LoopTexts == TextsUpTo(LoopPieces, MaxPieces)

LoopWindows ==
  {-1, 0, 1, MaxWindow, ThresholdPerWindow, ThresholdPerWindow + 1, DefaultRepetitionWindow}

\* repetition_checks(text, window) is called and reaches its window loop
RepetitionEnter ==
  /\ mech.pc = "idle"
  /\ \E text \in LoopTexts, window \in LoopWindows :
       mech' = [pc |-> "loop", fn |-> "repetition_checks", text |-> text,
                window |-> window, words |-> LowerAll(mech_tokens(text)), i |-> 0,
                st |-> RepetitionStart]
  /\ UNCHANGED <<roll, arc, entry, style, lex, cont, struct, beats, srv, mtld, tool>>

\* one pass of `for i, w in enumerate(words)'
RepetitionIterate ==
  /\ mech.pc = "loop"
  /\ mech.i < Len(mech.words)
  /\ mech' = [mech EXCEPT !.i = @ + 1,
                          !.st = RepetitionStep(@, mech.words[mech.i + 1], mech.window)]
  /\ UNCHANGED <<roll, arc, entry, style, lex, cont, struct, beats, srv, mtld, tool>>

\* the loop has ended and repetition_checks returns its dict
RepetitionReturn ==
  /\ mech.pc = "loop"
  /\ mech.i = Len(mech.words)
  /\ mech' = [pc |-> "return", fn |-> "repetition_checks", text |-> mech.text,
              window |-> mech.window, words |-> mech.words, i |-> mech.i, st |-> mech.st,
              result |-> RepetitionReport(mech.words, ImmediateDups(mech.words),
                                          Counter(StyleWords(mech.words)), mech.st,
                                          mech.window)]
  /\ UNCHANGED <<roll, arc, entry, style, lex, cont, struct, beats, srv, mtld, tool>>

(***************************************************************************)
(* chapter_mechanics_cleanup: spacing_layout and analyze_mechanics.        *)
(***************************************************************************)
\* the k-th smallest element of a set of positions
NthIn(S, k) == CHOOSE i \in S : Cardinality({j \in S : j <= i}) = k

NewlinesOf(s) == {i \in 1..Len(s) : s[i] = "\n"}

\* the k-th of the n pieces that the separators at positions nl cut s into
PieceAt(s, nl, k, n) ==
  SubSeq(s, IF k = 1 THEN 1 ELSE NthIn(nl, k - 1) + 1,
            IF k = n THEN Len(s) ELSE NthIn(nl, k) - 1)

SplitAt(s, nl) == [k \in 1..(Cardinality(nl) + 1) |-> PieceAt(s, nl, k, Cardinality(nl) + 1)]

\* text.split("\n")
SplitLines(s) == SplitAt(s, NewlinesOf(s))

\* ln.startswith(" ") or ln.endswith(" ")
HasEdgeSpace(ln) == ln # <<>> /\ (ln[1] = " " \/ ln[Len(ln)] = " ")

\* the starts of the maximal runs of at least n newlines: re.findall(r"\n{n,}", s)
NewlineRuns(s, n) ==
  {i \in 1..Len(s) :
     /\ s[i] = "\n"
     /\ (i = 1 \/ s[i - 1] # "\n")
     /\ i + n - 1 <= Len(s)
     /\ \A k \in i..(i + n - 1) : s[k] = "\n"}

CountEdgeSpaces(lines) == Cardinality({k \in 1..Len(lines) : HasEdgeSpace(lines[k])})

SpacingOfLines(text, lines) ==
  [lines_with_edge_spaces |-> CountEdgeSpaces(lines),
   blank_line_runs_3plus |-> Cardinality(NewlineRuns(text, 3)),
   line_count |-> Len(lines)]

spacing_layout(text) == SpacingOfLines(text, SplitLines(text))

normalize_newlines(text) == ReplaceCRLF(text)

\* the MechanicsReport, once text_n is built; of its fields total_words,
\* spacing_layout and repetition are modelled
MechanicsOfNormalized(text_n) ==
  [total_words |-> Len(mech_tokens(text_n)),
   spacing_layout |-> spacing_layout(text_n),
   repetition |-> repetition_checks(text_n, DefaultRepetitionWindow)]

analyze_mechanics(text) == MechanicsOfNormalized(normalize_newlines(text))

LayoutPieces ==
  {<<"t", "h", "e", " ", "t", "h", "e", " ">>, <<"c", "a", "t", ".">>, <<" ">>,
   <<"\n">>, <<"\r">>, <<"\n", "\n", "\n">>}

LayoutTexts == TextsUpTo(LayoutPieces, MaxPieces)

\* analyze_mechanics(text) is called and returns
AnalyzeMechanics ==
  /\ mech.pc = "idle"
  /\ \E text \in LayoutTexts :
       mech' = [pc |-> "return", fn |-> "analyze_mechanics", text |-> text,
                result |-> analyze_mechanics(text)]
  /\ UNCHANGED <<roll, arc, entry, style, lex, cont, struct, beats, srv, mtld, tool>>

(***************************************************************************)
(* chapter_structural_analysis.                                            *)
(***************************************************************************)
structural_normalize_text(text) == RstripLines(ReplaceCRLF(text))

\* the positions that r'\n{2,}' matches: newlines with a newline beside them
ParagraphBreaks(s) ==
  {i \in 1..Len(s) :
     /\ s[i] = "\n"
     /\ (i > 1 /\ s[i - 1] = "\n") \/ (i < Len(s) /\ s[i + 1] = "\n")}

\* where the non-empty pieces of re.split(r'\n{2,}', s) start
BlockStarts(s, br) == {i \in 1..Len(s) \ br : i = 1 \/ (i - 1) \in br}

\* the piece that starts at i
BlockAt(s, br, i) == SubSeq(s, i, Least({j \in i..Len(s) : j = Len(s) \/ (j + 1) \in br}))

BlocksOf(s, br, starts) ==
  [k \in 1..Cardinality(starts) |-> BlockAt(s, br, NthIn(starts, k))]

\* re.split(r'\n{2,}', s) without the empty pieces, which the filter of
\* split_paragraphs drops
RawParagraphs(s) == BlocksOf(s, ParagraphBreaks(s), BlockStarts(s, ParagraphBreaks(s)))

split_paragraphs(text) == StripNonEmpty(RawParagraphs(text))

\* "U+00A7" stands for the section sign
SCENE_DIVIDERS ==
  {<<"*", "*", "*">>, <<"#", "#", "#">>, <<"-", "-", "-">>,
   <<"U+00A7", "U+00A7", "U+00A7">>, <<"*", " ", "*", " ", "*">>}

IsDivider(p) == Strip(p) \in SCENE_DIVIDERS

structural_split_sentences(paragraph) == SplitCollapsed(Strip(CollapseWhitespace(paragraph)))

structural_word_tokens(text) == WORD_RE_findall(text)

\* the paragraph indexes (from 0) that open a scene: sorted(set(boundaries))
BoundarySetPastEnd(paragraphs) ==
  {0} \cup {i \in 1..Len(paragraphs) : IsDivider(paragraphs[i])}

BoundarySet(paragraphs) ==
  {0} \cup {i \in 1..(Len(paragraphs) - 1) : IsDivider(paragraphs[i])}

\* a set of numbers as the ascending list
Ascending(S) == [k \in 1..Cardinality(S) |-> NthIn(S, k)]

detect_scene_boundaries(paragraphs) == Ascending(BoundarySet(paragraphs))

\* " ".join(chunk)
RECURSIVE JoinSpaced(_, _)
JoinSpaced(chunk, i) ==
  IF i > Len(chunk) THEN <<>>
  ELSE IF i = Len(chunk) THEN chunk[i]
  ELSE chunk[i] \o <<" ">> \o JoinSpaced(chunk, i + 1)

\* paragraphs[start:end] with the indexes of the code, which count from 0
Slice(s, start, end) == SubSeq(s, start + 1, Min(end, Len(s)))

SceneEnd(paragraphs, boundaries, idx) ==
  IF idx + 1 <= Len(boundaries) THEN boundaries[idx + 1] ELSE Len(paragraphs)

SceneChunks(paragraphs, boundaries) ==
  [idx \in 1..Len(boundaries) |->
     Slice(paragraphs, boundaries[idx], SceneEnd(paragraphs, boundaries, idx))]

WordsPerScene(chunks) ==
  [k \in 1..Len(chunks) |-> Len(structural_word_tokens(JoinSpaced(chunks[k], 1)))]

\* mean(words_per_scene) if words_per_scene else 0.0
AvgWords(words_per_scene) ==
  IF words_per_scene = <<>> THEN Float(0)
  ELSE Quot(SumSeq(words_per_scene), Len(words_per_scene))

SceneStatsOf(chunks) ==
  [scene_count |-> Len(chunks), avg_words |-> AvgWords(WordsPerScene(chunks))]

scene_stats(paragraphs, boundaries) == SceneStatsOf(SceneChunks(paragraphs, boundaries))

\* the sentences of the paragraphs from the i-th on, dividers bypassed
RECURSIVE AllSentencesFrom(_, _)
AllSentencesFrom(paragraphs, i) ==
  IF i > Len(paragraphs) THEN <<>>
  ELSE (IF IsDivider(paragraphs[i]) THEN <<>>
        ELSE structural_split_sentences(paragraphs[i]))
       \o AllSentencesFrom(paragraphs, i + 1)

CountProse(paragraphs) ==
  Cardinality({i \in 1..Len(paragraphs) :
                 Strip(paragraphs[i]) # <<>> /\ ~IsDivider(paragraphs[i])})

\* the StructuralReport; of its fields the counts, the scene fields and
\* last_line are modelled
StructuralReport(text, paragraphs, all_sentences, boundaries, stats) ==
  [word_count |-> Len(structural_word_tokens(text)),
   sentence_count |-> Len(all_sentences),
   paragraph_count |-> CountProse(paragraphs),
   scene_count |-> stats.scene_count,
   avg_words_per_scene |-> RoundTo(stats.avg_words.num, stats.avg_words.den, 100),
   scene_boundaries |-> boundaries,
   last_line |-> IF all_sentences # <<>> THEN all_sentences[Len(all_sentences)] ELSE <<>>]

ChapterOfBoundaries(text, paragraphs, boundaries) ==
  StructuralReport(text, paragraphs, AllSentencesFrom(paragraphs, 1), boundaries,
                   scene_stats(paragraphs, boundaries))

ChapterOfParagraphs(text, paragraphs) ==
  ChapterOfBoundaries(text, paragraphs, detect_scene_boundaries(paragraphs))

ChapterOfNormalized(text) == ChapterOfParagraphs(text, split_paragraphs(text))

analyze_chapter(text) == ChapterOfNormalized(structural_normalize_text(text))

ChapterPieces ==
  {<<"A", " ", "c", "a", "t", ".", " ", "I", "t", " ", "s", "a", "t", ".">>,
   <<"R", "u", "n", "!">>, <<"\n", "\n">>, <<"\n">>, <<" ">>,
   <<"*", "*", "*">>, <<"-", "-", "-">>}

ChapterTexts == TextsUpTo(ChapterPieces, MaxPieces)

\* analyze_chapter(text) is called and returns
AnalyzeChapter ==
  /\ struct.pc = "idle"
  /\ \E text \in ChapterTexts :
       struct' = [pc |-> "return", fn |-> "analyze_chapter", text |-> text,
                  result |-> analyze_chapter(text)]
  /\ UNCHANGED <<roll, arc, entry, style, lex, cont, mech, beats, srv, mtld, tool>>

\* the pieces of the texts whose scenes are analysed: two prose paragraphs,
\* three dividers (one without a paragraph break after it, one padded with
\* blanks) and a paragraph that only starts like a divider
ScenePieces ==
  {<<"A", " ", "c", "a", "t", ".", " ", "I", "t", " ", "s", "a", "t", ".", "\n", "\n">>,
   <<"R", "u", "n", "!", "\n", "\n">>,
   <<"*", "*", "*", "\n", "\n">>,
   <<"-", "-", "-">>,
   <<" ", "*", " ", "*", " ", "*", " ", "\n", "\n", "\n">>,
   <<"*", "*", "*", "x", ".", "\n", "\n">>}

SceneTexts == TextsUpTo(ScenePieces, MaxPieces)

\* analyze_chapter(text) is called and returns; the frame keeps the list of
\* paragraphs that the boundaries index
AnalyzeChapterScenes ==
  /\ struct.pc = "idle"
  /\ \E text \in SceneTexts :
       struct' = [pc |-> "return", fn |-> "analyze_chapter", text |-> text,
                  paragraphs |-> split_paragraphs(structural_normalize_text(text)),
                  result |-> analyze_chapter(text)]
  /\ UNCHANGED <<roll, arc, entry, style, lex, cont, mech, beats, srv, mtld, tool>>

(***************************************************************************)
(* chapter_beats_detection.                                                *)
(***************************************************************************)
beats_sentences(text) ==
  StripNonEmpty(SENTENCE_SPLIT_RE_split(CollapseWhitespace(Strip(ReplaceCRLF(text)))))

beats_toks(s) == LowerAll(WORD_RE_findall(s))

\* the keys of CUES in the order of the dict
BEATS == <<"setup", "inciting", "rising", "midpoint", "crisis_climax", "resolution_hook">>

CUES ==
  [setup |->
     {<<"a", "r", "r", "i", "v", "e">>, <<"d", "a", "i", "l", "y">>,
      <<"e", "s", "t", "a", "b", "l", "i", "s", "h">>,
      <<"i", "n", "t", "r", "o", "d", "u", "c", "e">>, <<"m", "e", "e", "t">>,
      <<"n", "o", "r", "m", "a", "l">>, <<"o", "r", "d", "i", "n", "a", "r", "y">>,
      <<"r", "o", "u", "t", "i", "n", "e">>, <<"s", "h", "o", "w">>},
   inciting |->
     {<<"a", "c", "c", "i", "d", "e", "n", "t">>, <<"a", "p", "p", "e", "a", "r", "s">>,
      <<"c", "a", "l", "l">>, <<"d", "e", "a", "d">>,
      <<"d", "i", "s", "c", "o", "v", "e", "r">>, <<"f", "o", "u", "n", "d">>,
      <<"m", "e", "s", "s", "a", "g", "e">>, <<"m", "i", "s", "s", "i", "n", "g">>,
      <<"m", "u", "r", "d", "e", "r">>,
      <<"m", "y", "s", "t", "e", "r", "i", "o", "u", "s">>,
      <<"v", "a", "n", "i", "s", "h">>},
   rising |->
     {<<"a", "f", "t", "e", "r">>, <<"a", "s">>, <<"b", "e", "c", "a", "u", "s", "e">>,
      <<"b", "u", "t">>, <<"c", "o", "m", "p", "l", "i", "c", "a", "t", "i", "o", "n">>,
      <<"h", "o", "w", "e", "v", "e", "r">>,
      <<"m", "e", "a", "n", "w", "h", "i", "l", "e">>,
      <<"o", "b", "s", "t", "a", "c", "l", "e">>, <<"t", "h", "e", "n">>,
      <<"t", "h", "e", "r", "e", "f", "o", "r", "e">>},
   midpoint |->
     {<<"c", "o", "m", "m", "i", "t">>, <<"d", "e", "c", "i", "d", "e">>,
      <<"h", "a", "l", "f", "w", "a", "y">>, <<"m", "u", "s", "t">>, <<"n", "o", "w">>,
      <<"p", "o", "i", "n", "t">>, <<"r", "e", "a", "l", "i", "z", "e">>,
      <<"r", "e", "v", "e", "a", "l">>, <<"s", "h", "i", "f", "t">>,
      <<"t", "r", "u", "t", "h">>},
   crisis_climax |->
     {<<"c", "h", "a", "s", "e">>, <<"c", "h", "o", "o", "s", "e">>,
      <<"c", "l", "i", "m", "a", "x">>, <<"c", "o", "l", "l", "a", "p", "s", "e">>,
      <<"c", "o", "n", "f", "r", "o", "n", "t">>, <<"c", "o", "r", "n", "e", "r">>,
      <<"e", "x", "p", "l", "o", "d", "e">>, <<"f", "i", "g", "h", "t">>,
      <<"f", "i", "n", "a", "l">>, <<"r", "i", "s", "k">>,
      <<"s", "a", "c", "r", "i", "f", "i", "c", "e">>, <<"t", "r", "a", "p">>},
   resolution_hook |->
     {<<"a", "f", "t", "e", "r">>, <<"a", "t", " ", "l", "a", "s", "t">>,
      <<"f", "i", "n", "a", "l", "l", "y">>, <<"h", "o", "m", "e">>,
      <<"l", "a", "t", "e", "r">>, <<"m", "o", "r", "n", "i", "n", "g">>,
      <<"n", "e", "x", "t">>, <<"q", "u", "i", "e", "t">>,
      <<"r", "e", "s", "o", "l", "v", "e">>, <<"r", "e", "t", "u", "r", "n">>,
      <<"s", "t", "i", "l", "l">>, <<"u", "n", "t", "i", "l">>, <<"y", "e", "t">>}]

WEIGHTS ==
  [setup |-> [lo |-> Quot(0, 1), hi |-> Quot(1, 4)],
   inciting |-> [lo |-> Quot(1, 20), hi |-> Quot(7, 20)],
   rising |-> [lo |-> Quot(1, 5), hi |-> Quot(7, 10)],
   midpoint |-> [lo |-> Quot(9, 20), hi |-> Quot(11, 20)],
   crisis_climax |-> [lo |-> Quot(7, 10), hi |-> Quot(19, 20)],
   resolution_hook |-> [lo |-> Quot(17, 20), hi |-> Quot(101, 100)]]

\* top_k: int = 3
DefaultTopK == 3

FloatAbs(a) == Quot(Abs(a.num), a.den)

\* a + b and a * b on floats
FloatAdd(a, b) == Quot(a.num * b.den + b.num * a.den, a.den * b.den)

FloatMul(a, b) == Quot(a.num * b.num, a.den * b.den)

\* max(1e-9, (hi - lo)/2.0): every window of WEIGHTS is wider than 2e-9
HalfWidth(lo, hi) == FloatMul(FloatSub(hi, lo), Quot(1, 2))

\* max(0.1, 1.0 - d)
FlooredWeightNoFloor(d) == FloatSub(Float(1), d)

FlooredWeight(d) ==
  IF FloatLess(FloatSub(Float(1), d), Quot(1, 10)) THEN Quot(1, 10)
  ELSE FloatSub(Float(1), d)

\* the weight of a position inside the window, given the center
WeightAround(pos, center, half) == FlooredWeight(FloatDiv(FloatAbs(FloatSub(pos, center)), half))

in_window(pos, lo, hi) ==
  IF FloatLess(pos, lo) \/ FloatLess(hi, pos) THEN Quot(1, 2)
  ELSE WeightAround(pos, FloatMul(FloatAdd(lo, hi), Quot(1, 2)), HalfWidth(lo, hi))

\* sum(1 for t in w if t in cue_words)
CueScore(w, cue_words) == Cardinality({i \in 1..Len(w) : w[i] \in cue_words})

\* sc = cue_score * (0.6 + 0.4*pos_weight)
BeatScore(cue_score, pos_weight) ==
  FloatMul(Float(cue_score), FloatAdd(Quot(3, 5), FloatMul(Quot(2, 5), pos_weight)))

\* round(sc, 3)
RoundedScore(sc) == RoundTo(sc.num, sc.den, 1000)

\* the BeatHit of a sentence with cue_score > 0; reason, a text made of
\* cue_score and pos_weight, is kept as the cue count
BeatHit(idx, s, cue_score, pos_weight) ==
  [index |-> idx, score |-> RoundedScore(BeatScore(cue_score, pos_weight)),
   cues |-> cue_score, text |-> s]

\* hits.get(beat) of score_sentence(idx, s, pos): a hit, or none
BeatOf(idx, s, pos, beat, cue_score) ==
  IF cue_score = 0 THEN <<>>
  ELSE <<BeatHit(idx, s, cue_score, in_window(pos, WEIGHTS[beat].lo, WEIGHTS[beat].hi))>>

beat_score_sentence(idx, s, pos, beat) == BeatOf(idx, s, pos, beat, CueScore(beats_toks(s), CUES[beat]))

\* candidates[beat] after the loop over the sentences from the i-th on
RECURSIVE CandidatesFrom(_, _, _, _)
CandidatesFrom(sents, n, beat, i) ==
  IF i > Len(sents) THEN <<>>
  ELSE beat_score_sentence(i - 1, sents[i], Quot(i, n), beat)
       \o CandidatesFrom(sents, n, beat, i + 1)

\* the place of hits[i] in sorted(hits, key=score, reverse=True), a stable sort
RankByScoreTiesReversed(hits, i) ==
  1 + Cardinality({j \in 1..Len(hits) :
                     \/ FloatLess(hits[i].score, hits[j].score)
                     \/ hits[j].score = hits[i].score /\ j > i})

RankByScore(hits, i) ==
  1 + Cardinality({j \in 1..Len(hits) :
                     \/ FloatLess(hits[i].score, hits[j].score)
                     \/ hits[j].score = hits[i].score /\ j < i})

SortedByScore(hits) ==
  [k \in 1..Len(hits) |-> hits[CHOOSE i \in 1..Len(hits) : RankByScore(hits, i) = k]]

\* sorted(...)[:top_k]; a negative top_k counts from the end of the list
TopK(hits, top_k) ==
  SubSeq(SortedByScore(hits), 1,
         IF top_k >= 0 THEN Min(top_k, Len(hits)) ELSE Max(Len(hits) + top_k, 0))

BeatsOfSentences(sents, n, top_k) ==
  [beat \in Range(BEATS) |-> TopK(CandidatesFrom(sents, n, beat, 1), top_k)]

\* n = len(sents) or 1
beats_analyze_sents(sents, top_k) ==
  BeatsOfSentences(sents, IF Len(sents) # 0 THEN Len(sents) ELSE 1, top_k)

beats_analyze(text, top_k) == beats_analyze_sents(beats_sentences(text), top_k)

BeatPieces ==
  {<<"W", "e", " ", "m", "e", "e", "t", ".", " ">>,
   <<"B", "u", "t", " ", "t", "h", "e", "n", " ", "n", "o", "w", "!", " ">>,
   <<"A", "f", "t", "e", "r", " ", "t", "h", "e", " ", "c", "a", "l", "l", ".", " ">>,
   <<"F", "i", "n", "a", "l", "l", "y", " ", "h", "o", "m", "e", ".", " ">>,
   <<"N", "o", "w", "?", " ">>, <<"R", "a", "i", "n", ".", " ">>, <<" ">>}

BeatTexts == TextsUpTo(BeatPieces, MaxPieces)

\* analyze(text) of the beat detection is called and returns
AnalyzeBeats ==
  /\ beats.pc = "idle"
  /\ \E text \in BeatTexts :
       beats' = [pc |-> "return", fn |-> "analyze", text |-> text,
                 result |-> beats_analyze(text, DefaultTopK)]
  /\ UNCHANGED <<roll, arc, entry, style, lex, cont, mech, struct, srv, mtld, tool>>

\* the values of top_k that analyze is called with, and the texts
TopKs == {-1, 0, 1, 2, DefaultTopK}

TopKPieces ==
  {<<"N", "o", "w", "?", " ">>,
   <<"N", "o", "w", ".", " ", "T", "h", "e", "n", " ", "n", "o", "w", "!", " ">>,
   <<"B", "u", "t", " ", "t", "h", "e", "n", " ", "n", "o", "w", "!", " ">>,
   <<"A", "f", "t", "e", "r", " ", "t", "h", "e", " ", "c", "a", "l", "l", ".", " ">>,
   <<"R", "a", "i", "n", ".", " ">>}

TopKTexts == TextsUpTo(TopKPieces, MaxPieces)

\* analyze(text, top_k) of the beat detection is called and returns
AnalyzeBeatsTopK ==
  /\ beats.pc = "idle"
  /\ \E text \in TopKTexts, top_k \in TopKs :
       beats' = [pc |-> "return", fn |-> "analyze", text |-> text, top_k |-> top_k,
                 sents |-> beats_sentences(text),
                 result |-> beats_analyze(text, top_k)]
  /\ UNCHANGED <<roll, arc, entry, style, lex, cont, mech, struct, srv, mtld, tool>>

\* the positions in_window is applied to: the multiples of 1/200 from 0 to
\* past 1.01, which hold the center and the edges of every window of WEIGHTS
Positions == {Quot(k, 200) : k \in 0..MaxPosition}

\* the sentences score_sentence is applied to
ScoredSentences ==
  {<<"W", "e", " ", "m", "e", "e", "t", ".">>,
   <<"B", "u", "t", " ", "t", "h", "e", "n", " ", "n", "o", "w", "!">>,
   <<"A", "f", "t", "e", "r", " ", "a", "f", "t", "e", "r", " ", "h", "o", "m", "e", ".">>,
   <<"A", "t", " ", "l", "a", "s", "t", ".">>,
   <<"R", "a", "i", "n", ".">>}

\* in_window(pos, lo, hi) is called with the window of a beat and returns
InWindowCall ==
  /\ beats.pc = "idle"
  /\ \E beat \in Range(BEATS), pos \in Positions :
       beats' = [pc |-> "return", fn |-> "in_window", beat |-> beat, pos |-> pos,
                 lo |-> WEIGHTS[beat].lo, hi |-> WEIGHTS[beat].hi,
                 result |-> in_window(pos, WEIGHTS[beat].lo, WEIGHTS[beat].hi)]
  /\ UNCHANGED <<roll, arc, entry, style, lex, cont, mech, struct, srv, mtld, tool>>

\* score_sentence(idx, s, pos) is called and returns its hits, one per beat
\* with a cue in the sentence
ScoreSentenceCall ==
  /\ beats.pc = "idle"
  /\ \E s \in ScoredSentences, pos \in Positions \ {Float(0)} :
       beats' = [pc |-> "return", fn |-> "score_sentence", s |-> s, pos |-> pos,
                 hits |-> [beat \in Range(BEATS) |-> beat_score_sentence(0, s, pos, beat)]]
  /\ UNCHANGED <<roll, arc, entry, style, lex, cont, mech, struct, srv, mtld, tool>>

\* the caller takes the result
BeatsTaken ==
  /\ beats.pc = "return"
  /\ beats.fn \in {"in_window", "score_sentence"}
  /\ beats' = [pc |-> "idle"]
  /\ UNCHANGED <<roll, arc, entry, style, lex, cont, mech, struct, srv, mtld, tool>>

(***************************************************************************)
(* chapter_continuity_consistency: load_canon and analyze_continuity.      *)
(* A dict is the sequence of its (key, value) pairs in insertion order.    *)
(* A set of str is iterated in an order that the string hashing of the     *)
(* interpreter fixes anew for every process: the caller of                 *)
(* analyze_continuity passes the order of each alias set.                  *)
(***************************************************************************)
cont_normalize_text(text) == ReplaceCRLF(text)

cont_word_tokens(s) == WORD_RE_findall(s)

cont_sentences(text) ==
  StripNonEmpty(SENTENCE_SPLIT_RE_split(CollapseWhitespace(Strip(text))))

\* inline_names.split(",")
SplitCommas(s) == SplitAt(s, {i \in 1..Len(s) : s[i] = ","})

\* the (name, added aliases) of the items of the JSON file
JsonAdds(items) ==
  [i \in 1..Len(items) |->
     [name |-> Strip(items[i].name),
      add |-> ({Strip(items[i].name)}
                 \cup {Strip(items[i].aliases[k]) : k \in 1..Len(items[i].aliases)})
              \ {<<>>}]]

\* the (name, added aliases) of the parts of inline_names
InlineAdds(parts) ==
  [i \in 1..Len(parts) |-> [name |-> Strip(parts[i]), add |-> {Strip(parts[i])}]]

\* the adds that have a name, in order
NamedAdds(adds) == SelectSeq(adds, LAMBDA e : e.name # <<>>)

\* the keys of canon in insertion order
CanonKeys(adds) ==
  AtIndices([i \in 1..Len(adds) |-> adds[i].name],
            {i \in 1..Len(adds) : \A j \in 1..(i - 1) : adds[j].name # adds[i].name})

\* canon[k]
CanonSet(adds, k) == UNION {adds[i].add : i \in {j \in 1..Len(adds) : adds[j].name = k}}

\* set(list(v) + [x.lower() for x in v])
WithLower(v) == v \cup {str_lower(x) : x \in v}

CanonNorm(adds, keys) ==
  [i \in 1..Len(keys) |-> [name |-> keys[i], aliases |-> WithLower(CanonSet(adds, keys[i]))]]

CanonOfAdds(adds) == CanonNorm(adds, CanonKeys(adds))

\* load_canon("", json_path, inline_names), items being the "canon" list of
\* the JSON file (empty without a file)
load_canon(items, inline_names) ==
  CanonOfAdds(NamedAdds(JsonAdds(items) \o InlineAdds(SplitCommas(inline_names))))

\* \w of the regular expressions
WordChars == Alnum \cup {"_"}

IsWordAt(s, k) == k \in 1..Len(s) /\ s[k] \in WordChars

\* \b just before position i
BoundaryAt(s, i) == IsWordAt(s, i - 1) # IsWordAt(s, i)

\* where rf"\b{re.escape(a)}\b" matches under re.IGNORECASE
PhraseHits(s, a) ==
  {i \in 1..(Len(s) - Len(a) + 1) :
     /\ \A k \in 1..Len(a) : LowerChar(s[i + k - 1]) = LowerChar(a[k])
     /\ BoundaryAt(s, i)
     /\ BoundaryAt(s, i + Len(a))}

\* len(pattern.findall(text_n)): the matches from left to right, none overlapping
RECURSIVE CountHitsFrom(_, _, _)
CountHitsFrom(hits, n, from) ==
  IF {h \in hits : h >= from} = {} THEN 0
  ELSE 1 + CountHitsFrom(hits, n, Least({h \in hits : h >= from}) + n)

PhraseCount(s, a) == CountHitsFrom(PhraseHits(s, a), Len(a), 1)

\* lows.count(a.lower())
TokenCount(lowered, a) ==
  Cardinality({i \in 1..Len(lowered) : lowered[i] = str_lower(a)})

\* " " in a.strip()
IsPhrase(a) == \E i \in 1..Len(Strip(a)) : Strip(a)[i] = " "

\* alias_counts[a]
AliasCount(text_n, lowered, a) ==
  IF IsPhrase(a) THEN PhraseCount(text_n, a) ELSE TokenCount(lowered, a)

\* alias_counts after `for a in aliases', iterated in the given order
AliasCounts(text_n, lowered, order) ==
  [i \in 1..Len(order) |-> <<order[i], AliasCount(text_n, lowered, order[i])>>]

\* `if not a: continue'
NonEmptyAliases(order) == SelectSeq(order, LAMBDA a : a # <<>>)

SumCounts(pairs) == SumSeq([i \in 1..Len(pairs) |-> pairs[i][2]])

\* {k:v for k,v in alias_counts.items() if v>0}
PositiveCounts(pairs) == SelectSeq(pairs, LAMBDA p : p[2] > 0)

\* what one pass of `for canon_name, aliases in canon.items()' adds
CanonEntryOf(name, alias_counts) ==
  IF SumCounts(alias_counts) > 0
    THEN << [name |-> name, total |-> SumCounts(alias_counts),
             hits |-> PositiveCounts(alias_counts)] >>
    ELSE <<>>

RECURSIVE CanonLoop(_, _, _, _, _)
CanonLoop(text_n, lowered, canon, orders, i) ==
  IF i > Len(canon) THEN <<>>
  ELSE CanonEntryOf(canon[i].name,
                    AliasCounts(text_n, lowered, NonEmptyAliases(orders[i])))
       \o CanonLoop(text_n, lowered, canon, orders, i + 1)

canonical_matches_of(entries) ==
  [i \in 1..Len(entries) |-> <<entries[i].name, entries[i].total>>]

canonical_alias_hits_of(entries) ==
  [i \in 1..Len(entries) |-> <<entries[i].name, entries[i].hits>>]

\* w.replace("-", "")
Unhyphenated(w) == SelectSeq(w, LAMBDA c : c # "-")

\* the hyphenated words whose unhyphenated form is a token as well
HyphenatedTwice(S) == {w \in S : (\E i \in 1..Len(w) : w[i] = "-") /\ Unhyphenated(w) \in S}

PairsOf(ws) == [i \in 1..Len(ws) |-> <<ws[i], Unhyphenated(ws[i])>>]

\* sorted(set(pairs)): the second of a pair follows from the first
hyphenation_pairs(tokens_) == PairsOf(sorted(HyphenatedTwice(Range(LowerAll(tokens_)))))

WEEKDAYS ==
  {<<"f", "r", "i", "d", "a", "y">>, <<"m", "o", "n", "d", "a", "y">>,
   <<"s", "a", "t", "u", "r", "d", "a", "y">>, <<"s", "u", "n", "d", "a", "y">>,
   <<"t", "h", "u", "r", "s", "d", "a", "y">>, <<"t", "u", "e", "s", "d", "a", "y">>,
   <<"w", "e", "d", "n", "e", "s", "d", "a", "y">>}

MONTHS ==
  {<<"a", "p", "r", "i", "l">>, <<"a", "u", "g", "u", "s", "t">>,
   <<"d", "e", "c", "e", "m", "b", "e", "r">>,
   <<"f", "e", "b", "r", "u", "a", "r", "y">>, <<"j", "a", "n", "u", "a", "r", "y">>,
   <<"j", "u", "l", "y">>, <<"j", "u", "n", "e">>, <<"m", "a", "r", "c", "h">>,
   <<"m", "a", "y">>, <<"n", "o", "v", "e", "m", "b", "e", "r">>,
   <<"o", "c", "t", "o", "b", "e", "r">>, <<"s", "e", "p", "t", "e", "m", "b", "e", "r">>}

REL_DAYS ==
  {<<"l", "a", "s", "t", " ", "n", "i", "g", "h", "t">>,
   <<"t", "h", "i", "s", " ", "a", "f", "t", "e", "r", "n", "o", "o", "n">>,
   <<"t", "h", "i", "s", " ", "e", "v", "e", "n", "i", "n", "g">>,
   <<"t", "h", "i", "s", " ", "m", "o", "r", "n", "i", "n", "g">>,
   <<"t", "o", "d", "a", "y">>, <<"t", "o", "m", "o", "r", "r", "o", "w">>,
   <<"t", "o", "n", "i", "g", "h", "t">>, <<"y", "e", "s", "t", "e", "r", "d", "a", "y">>}

PRONOUNS ==
  {<<"h", "e">>, <<"h", "e", "r">>, <<"h", "e", "r", "s">>, <<"h", "i", "m">>,
   <<"h", "i", "s">>, <<"i", "t">>, <<"i", "t", "s">>, <<"s", "h", "e">>,
   <<"t", "h", "e", "i", "r", "s">>, <<"t", "h", "e", "m">>, <<"t", "h", "e", "y">>}

FIRST_PRON ==
  {<<"i">>, <<"m", "e">>, <<"m", "i", "n", "e">>, <<"m", "y">>, <<"o", "u", "r">>,
   <<"o", "u", "r", "s">>, <<"u", "s">>, <<"w", "e">>}

SECOND_PRON ==
  {<<"y", "o", "u">>, <<"y", "o", "u", "r">>, <<"y", "o", "u", "r", "s">>}

THIRD_PRON ==
  {<<"h", "e">>, <<"h", "e", "r">>, <<"h", "e", "r", "s">>, <<"h", "i", "m">>,
   <<"h", "i", "s">>, <<"i", "t">>, <<"i", "t", "s">>, <<"s", "h", "e">>,
   <<"t", "h", "e", "i", "r", "s">>, <<"t", "h", "e", "m">>, <<"t", "h", "e", "y">>}

BE_FORMS ==
  {<<"a", "m">>, <<"a", "r", "e">>, <<"b", "e">>, <<"b", "e", "e", "n">>,
   <<"b", "e", "i", "n", "g">>, <<"i", "s">>, <<"w", "a", "s">>, <<"w", "e", "r", "e">>}

HAVE_FORMS ==
  {<<"h", "a", "d">>, <<"h", "a", "s">>, <<"h", "a", "v", "e">>}

DO_FORMS ==
  {<<"d", "i", "d">>, <<"d", "o">>, <<"d", "o", "e", "s">>}

\* phrase in lows
Contains(s, w) ==
  \E i \in 1..(Len(s) - Len(w) + 1) : SubSeq(s, i, i + Len(w) - 1) = w

FoundIn(s, S) == sorted({w \in S : Contains(s, w)})

\* time_place_markers: times and dates, two digit patterns, are not modelled
MarkersOfLower(lowered_text) ==
  [weekdays |-> FoundIn(lowered_text, WEEKDAYS),
   months |-> FoundIn(lowered_text, MONTHS),
   relative |-> FoundIn(lowered_text, REL_DAYS)]

time_place_markers(text) == MarkersOfLower(str_lower(text))

PronounStart == [ambiguous |-> 0, max_run |-> 0, cur_run |-> 0]

\* the loop body with a current run that is never set back
PronounStepNoReset(st, words, lowered) ==
  [ambiguous |->
     IF /\ Cardinality({i \in 1..Len(lowered) : lowered[i] \in PRONOUNS}) >= 3
        /\ ~(\E i \in 1..Len(words) : words[i][1] \in Upper)
       THEN st.ambiguous + 1 ELSE st.ambiguous,
   max_run |->
     IF lowered # <<>> /\ lowered[1] \in PRONOUNS
       THEN Max(st.max_run, st.cur_run + 1) ELSE st.max_run,
   cur_run |->
     IF lowered # <<>> /\ lowered[1] \in PRONOUNS THEN st.cur_run + 1 ELSE st.cur_run]

\* the loop body of pronoun_ambiguity once the tokens of the sentence are taken
PronounStepOf(st, words, lowered) ==
  [ambiguous |->
     IF /\ Cardinality({i \in 1..Len(lowered) : lowered[i] \in PRONOUNS}) >= 3
        /\ ~(\E i \in 1..Len(words) : words[i][1] \in Upper)
       THEN st.ambiguous + 1 ELSE st.ambiguous,
   max_run |->
     IF lowered # <<>> /\ lowered[1] \in PRONOUNS
       THEN Max(st.max_run, st.cur_run + 1) ELSE st.max_run,
   cur_run |->
     IF lowered # <<>> /\ lowered[1] \in PRONOUNS THEN st.cur_run + 1 ELSE 0]

PronounStep(st, s) == PronounStepOf(st, cont_word_tokens(s), LowerAll(cont_word_tokens(s)))

RECURSIVE PronounLoop(_, _, _)
PronounLoop(st, sent_list, i) ==
  IF i > Len(sent_list) THEN st
  ELSE PronounLoop(PronounStep(st, sent_list[i]), sent_list, i + 1)

PronounResult(st) == [ambiguous_sentences |-> st.ambiguous, max_pronoun_led_run |-> st.max_run]

pronoun_ambiguity(sent_list) == PronounResult(PronounLoop(PronounStart, sent_list, 1))

CountIn(lowered, S) == Cardinality({i \in 1..Len(lowered) : lowered[i] \in S})

\* round(count/total, 3)
RoundedRatio(count, total) == Round3(Quot(count, total))

PovOfLower(lowered, total) ==
  [first_person_ratio |-> RoundedRatio(CountIn(lowered, FIRST_PRON), total),
   second_person_ratio |-> RoundedRatio(CountIn(lowered, SECOND_PRON), total),
   third_person_ratio |-> RoundedRatio(CountIn(lowered, THIRD_PRON), total),
   past_ed_ratio |->
     RoundedRatio(Cardinality({i \in 1..Len(lowered) :
                                 Len(lowered[i]) > 3 /\ EndsWith(lowered[i], <<"e", "d">>)}),
                  total),
   present_aux_ratio |->
     RoundedRatio(CountIn(lowered, BE_FORMS)
                    + CountIn(lowered, HAVE_FORMS \cup DO_FORMS), total)]

\* total = len(lows) or 1
pov_and_tense(tokens_) ==
  PovOfLower(LowerAll(tokens_), IF Len(tokens_) # 0 THEN Len(tokens_) ELSE 1)

\* stand-ins for the four curly quotes
CurlyQuotes == {"U+201C", "U+201D", "U+2018", "U+2019"}

CountChars(text, S) == Cardinality({i \in 1..Len(text) : text[i] \in S})

quote_style_counts(text) ==
  [straight_quotes |-> CountChars(text, {"\"", "'"}),
   curly_quotes |-> CountChars(text, CurlyQuotes)]

\* [t for t in toks if t[:1].isupper() and len(t) >= 3]
ProperLike(words) == SelectSeq(words, LAMBDA t : t[1] \in Upper /\ Len(t) >= 3)

ContinuityReport(entries, prob_vars, hyph_pairs, tp, pa, pov, qs) ==
  [canonical_matches |-> canonical_matches_of(entries),
   canonical_alias_hits |-> canonical_alias_hits_of(entries),
   probable_variants |-> prob_vars,
   hyphenation_pairs |-> hyph_pairs,
   time_place_markers |-> tp,
   ambiguous_sentences |-> pa.ambiguous_sentences,
   max_pronoun_led_run |-> pa.max_pronoun_led_run,
   first_person_ratio |-> pov.first_person_ratio,
   second_person_ratio |-> pov.second_person_ratio,
   third_person_ratio |-> pov.third_person_ratio,
   past_ed_ratio |-> pov.past_ed_ratio,
   present_aux_ratio |-> pov.present_aux_ratio,
   quote_style |-> qs]

ContinuityOfTokens(text, text_n, words, canon, orders) ==
  ContinuityReport(CanonLoop(text_n, LowerAll(words), canon, orders, 1),
                   probable_variants(ProperLike(words), DefaultMinLen, ContinuityCutoff),
                   hyphenation_pairs(words),
                   time_place_markers(text_n),
                   pronoun_ambiguity(cont_sentences(text_n)),
                   pov_and_tense(words),
                   quote_style_counts(text))

ContinuityOfNormalized(text, text_n, canon, orders) ==
  ContinuityOfTokens(text, text_n, cont_word_tokens(text_n), canon, orders)

\* analyze_continuity(text, canon) in a process that iterates the alias set
\* of the i-th entry of canon in the order orders[i]
analyze_continuity(text, canon, orders) ==
  ContinuityOfNormalized(text, cont_normalize_text(text), canon, orders)

\* the orders in which a set can be iterated
Orderings(S) ==
  {o \in [1..Cardinality(S) -> S] : \A i, j \in 1..Cardinality(S) : o[i] = o[j] => i = j}

\* the orders of the alias sets of a canon, one for every entry
CanonOrders(canon) ==
  {o \in [1..Len(canon) -> UNION {Orderings(canon[i].aliases) : i \in 1..Len(canon)}] :
     \A i \in 1..Len(canon) : o[i] \in Orderings(canon[i].aliases)}

ContPieces ==
  {<<"T", "h", "e", "a", " ">>, <<"t", "h", "e", "a", ".", "\r">>,
   <<"J", "o", " ", "M", "o", "o", "r", " ">>, <<"s", "h", "e", " ">>,
   <<"e", "-", "m", "a", "i", "l", " ", "e", "m", "a", "i", "l", "?", " ">>}

ContTexts == TextsUpTo(ContPieces, MaxPieces)

\* the --names argument
InlineNames ==
  {<<>>, <<"T", "h", "e", "a">>, <<"t", "h", "e", "a">>,
   <<"T", "h", "e", "a", ",", " ", "J", "o", " ", "M", "o", "o", "r">>}

\* the "canon" list of the --canon_json file
JsonItems ==
  {<<>>,
   << [name |-> <<"T", "h", "e", "a">>, aliases |-> << <<"s", "h", "e">> >>] >>}

Canons == {load_canon(items, names) : items \in JsonItems, names \in InlineNames}

\* analyze_continuity(text, canon) is called in a fresh process and returns
AnalyzeContinuity ==
  /\ cont.pc = "idle"
  /\ \E text \in ContTexts, canon \in Canons :
       \E orders \in CanonOrders(canon) :
         cont' = [pc |-> "return", fn |-> "analyze_continuity", text |-> text,
                  canon |-> canon, result |-> analyze_continuity(text, canon, orders)]
  /\ UNCHANGED <<roll, arc, entry, style, lex, mech, struct, beats, srv, mtld, tool>>

\* the same analysis is run again, in another process, on the same document
AnalyzeContinuityAgain ==
  /\ cont.pc = "return"
  /\ cont.fn = "analyze_continuity"
  /\ \E orders \in CanonOrders(cont.canon) :
       cont' = [pc |-> "again", fn |-> "analyze_continuity", text |-> cont.text,
                canon |-> cont.canon, result |-> cont.result,
                again |-> analyze_continuity(cont.text, cont.canon, orders)]
  /\ UNCHANGED <<roll, arc, entry, style, lex, mech, struct, beats, srv, mtld, tool>>

(***************************************************************************)
(* normalize_text of chapter_style_readability and of                      *)
(* chapter_structural_analysis, applied to a string and then to its own    *)
(* output.                                                                 *)
(***************************************************************************)
NormalizeChars == {"a", " ", "\t", "\r", "\n", "\f"}

NormalizeInputs == SeqsUpTo(NormalizeChars, MaxLen)

\* normalize_text(text) of chapter_style_readability is called and returns
NormalizeText ==
  /\ style.pc = "idle"
  /\ \E text \in NormalizeInputs :
       style' = [pc |-> "return", fn |-> "normalize_text", text |-> text,
                 result |-> normalize_text(text)]
  /\ UNCHANGED <<roll, arc, entry, lex, cont, mech, struct, beats, srv, mtld, tool>>

\* normalize_text is applied to what it returned
NormalizeTextAgain ==
  /\ style.pc = "return"
  /\ style.fn = "normalize_text"
  /\ style' = [style EXCEPT !.pc = "again", !.text = style.result,
                            !.result = normalize_text(style.result)]
  /\ UNCHANGED <<roll, arc, entry, lex, cont, mech, struct, beats, srv, mtld, tool>>

\* normalize_text(text) of chapter_structural_analysis is called and returns
StructuralNormalizeText ==
  /\ struct.pc = "idle"
  /\ \E text \in NormalizeInputs :
       struct' = [pc |-> "return", fn |-> "normalize_text", text |-> text,
                  result |-> structural_normalize_text(text)]
  /\ UNCHANGED <<roll, arc, entry, style, lex, cont, mech, beats, srv, mtld, tool>>

StructuralNormalizeTextAgain ==
  /\ struct.pc = "return"
  /\ struct.fn = "normalize_text"
  /\ struct' = [struct EXCEPT !.pc = "again", !.text = struct.result,
                              !.result = structural_normalize_text(struct.result)]
  /\ UNCHANGED <<roll, arc, entry, style, lex, cont, mech, beats, srv, mtld, tool>>

(***************************************************************************)
(* emotion_arc_stdio_server: the loop of EmotionArcMCPServer.run.          *)
(* An input line is kept as what line.strip() and json.loads make of it:   *)
(* blank, text that is no JSON, or a JSON value.  A JSON value carries its *)
(* Python type; the fields of a dict are a function on its keys.  Ids are  *)
(* JSON strings, and "None" is Python's None.                              *)
(***************************************************************************)
Dict(f) == [type |-> "dict", fields |-> f]

NonDict(t) == [type |-> t]

IsDict(v) == v.type = "dict"

\* the None that a handler returns in place of a response
NoneValue == [none |-> TRUE]

IsNone(v) == "none" \in DOMAIN v

\* handle_initialize once params is taken: params.get raises on a non-dict
InitializeWith(request_id, params) ==
  IF ~IsDict(params) THEN Raised("AttributeError")
  ELSE Returned([id |-> request_id,
                 result |-> [protocolVersion |->
                               Get(params.fields, "protocolVersion", "2025-06-18"),
                             serverInfo |-> "emotion-arc-analyzer"]])

handle_initialize(request_id, request) ==
  InitializeWith(request_id, Get(request, "params", Dict(<<>>)))

handle_list_tools(request_id) ==
  [id |-> request_id, result |-> [tools |-> <<"analyze_emotion_arc">>]]

handle_list_prompts(request_id) == [id |-> request_id, result |-> [prompts |-> <<>>]]

handle_list_resources(request_id) == [id |-> request_id, result |-> [resources |-> <<>>]]

handle_initialized_notification == NoneValue

\* handle_call_tool as handle_request calls it: params.get raises on a non-dict
CallToolWith(request_id, params) ==
  IF ~IsDict(params) THEN Raised("AttributeError")
  ELSE Returned(stdio_handle_call_tool(request_id, params.fields))

\* handle_request once method and request_id are taken
Dispatch(request, method, request_id) ==
  IF method = "initialize" THEN handle_initialize(request_id, request)
  ELSE IF method = "tools/list" THEN Returned(handle_list_tools(request_id))
  ELSE IF method = "tools/call"
    THEN CallToolWith(request_id, Get(request, "params", Dict(<<>>)))
  ELSE IF method = "prompts/list" THEN Returned(handle_list_prompts(request_id))
  ELSE IF method = "resources/list" THEN Returned(handle_list_resources(request_id))
  ELSE IF method = "notifications/initialized"
    THEN Returned(handle_initialized_notification)
  ELSE IF method = "ping"
    THEN Returned([id |-> request_id, result |-> [status |-> "pong"]])
  ELSE Returned([id |-> request_id, error |-> [code |-> -32601, method |-> method]])

\* handle_request(request) on the fields of a dict
handle_request(request) ==
  Dispatch(request, Get(request, "method", ""), Get(request, "id", "None"))

\* the error_response of the handler `except Exception' of run
InternalError == [id |-> "None", error |-> [code |-> -32603]]

BlankLine == [kind |-> "blank"]

NotJsonLine == [kind |-> "text"]

JsonLine(v) == [kind |-> "json", value |-> v]

ToolParams ==
  Dict([name |-> "analyze_emotion_arc",
        arguments |-> [text |-> <<"s", "a", "d", ".">>, output_format |-> "json"]])

\* the lines a client sends
SrvLines ==
  {BlankLine, NotJsonLine,
   JsonLine(NonDict("list")),
   JsonLine(Dict([id |-> "a", method |-> "ping"])),
   JsonLine(Dict([method |-> "ping"])),
   JsonLine(Dict([id |-> "b", method |-> "initialize"])),
   JsonLine(Dict([method |-> "notifications/initialized"])),
   JsonLine(Dict([method |-> "notifications/cancelled"])),
   JsonLine(Dict([id |-> "c", method |-> "tools/list"])),
   JsonLine(Dict([id |-> "d", method |-> "tools/call", params |-> ToolParams])),
   JsonLine(Dict([id |-> "e", method |-> "tools/call", params |-> NonDict("NoneType")])),
   JsonLine(Dict([id |-> "f", method |-> "prompts/list"])),
   JsonLine(Dict([id |-> "g", method |-> "resources/list"])),
   JsonLine(Dict([id |-> "h"]))}

SrvInputs == SeqsUpTo(SrvLines, MaxLines)

\* run() starts on a stdin that will deliver the given lines
SrvStart ==
  /\ srv.pc = "idle"
  /\ \E lines \in SrvInputs :
       srv' = [pc |-> "read", lines |-> lines, nread |-> 0, request |-> NoneValue,
               response |-> NoneValue, stdout |-> <<>>]
  /\ UNCHANGED <<roll, arc, entry, style, lex, cont, mech, struct, beats, mtld, tool>>

\* line = sys.stdin.readline() returns a line
ReadLine ==
  /\ srv.pc = "read"
  /\ srv.nread < Len(srv.lines)
  /\ srv' = [srv EXCEPT !.pc = "line", !.nread = @ + 1]
  /\ UNCHANGED <<roll, arc, entry, style, lex, cont, mech, struct, beats, mtld, tool>>

\* readline returns "": `if not line: break'
ReadEof ==
  /\ srv.pc = "read"
  /\ srv.nread = Len(srv.lines)
  /\ srv' = [srv EXCEPT !.pc = "stopped"]
  /\ UNCHANGED <<roll, arc, entry, style, lex, cont, mech, struct, beats, mtld, tool>>

\* the stripped line is empty, or json.loads raises JSONDecodeError: continue
SkipLine ==
  /\ srv.pc = "line"
  /\ srv.lines[srv.nread].kind \in {"blank", "text"}
  /\ srv' = [srv EXCEPT !.pc = "read"]
  /\ UNCHANGED <<roll, arc, entry, style, lex, cont, mech, struct, beats, mtld, tool>>

\* request = json.loads(line), then request.get('method') for the message to
\* stderr, which raises AttributeError when request is no dict
ParseLine ==
  /\ srv.pc = "line"
  /\ srv.lines[srv.nread].kind = "json"
  /\ srv' = [srv EXCEPT !.request = srv.lines[srv.nread].value,
                        !.pc = IF IsDict(srv.lines[srv.nread].value)
                                 THEN "handle" ELSE "except"]
  /\ UNCHANGED <<roll, arc, entry, style, lex, cont, mech, struct, beats, mtld, tool>>

\* the step of the loop once handle_request has returned or raised
AfterHandle(r) ==
  IF r.raised # "none" THEN [srv EXCEPT !.pc = "except"]
  ELSE [srv EXCEPT !.pc = "respond", !.response = r.value]

\* response = self.handle_request(request)
HandleRequest ==
  /\ srv.pc = "handle"
  /\ srv' = AfterHandle(handle_request(srv.request.fields))
  /\ UNCHANGED <<roll, arc, entry, style, lex, cont, mech, struct, beats, mtld, tool>>

\* sys.stdout.write(response_json + '\n')
WriteResponse ==
  /\ srv.pc = "respond"
  /\ ~IsNone(srv.response)
  /\ srv' = [srv EXCEPT !.pc = "read",
                        !.stdout = Append(@, [line |-> srv.nread,
                                              response |-> srv.response])]
  /\ UNCHANGED <<roll, arc, entry, style, lex, cont, mech, struct, beats, mtld, tool>>

\* response is None: nothing is written
NoResponse ==
  /\ srv.pc = "respond"
  /\ IsNone(srv.response)
  /\ srv' = [srv EXCEPT !.pc = "read"]
  /\ UNCHANGED <<roll, arc, entry, style, lex, cont, mech, struct, beats, mtld, tool>>

\* except Exception: the error response with id None is written
WriteInternalError ==
  /\ srv.pc = "except"
  /\ srv' = [srv EXCEPT !.pc = "read",
                        !.stdout = Append(@, [line |-> srv.nread,
                                              response |-> InternalError])]
  /\ UNCHANGED <<roll, arc, entry, style, lex, cont, mech, struct, beats, mtld, tool>>

(***************************************************************************)
(* chapter_lexical_diversity.approx_mtld, one loop iteration at a time.    *)
(***************************************************************************)
\* threshold: float = 0.72
MtldThreshold == Quot(72, 100)

\* the 1e-9 of max(factors, 1e-9)
Epsilon == Quot(1, 1000000000)

\* a local name that is not bound yet
Unbound == [unbound |-> TRUE]

\* the frame when the loop is entered: factors = 0, types = set(), count = 0
MtldEnter(words) ==
  [pc |-> "loop", words |-> words, i |-> 0, factors |-> 0, types |-> {},
   count |-> 0, ttr |-> Unbound]

\* ttr <= threshold: factors += 1, types = set(), count = 0
MtldFactorKeepsCount(st, ttr) ==
  [st EXCEPT !.i = @ + 1, !.factors = @ + 1, !.types = {}, !.ttr = ttr]

MtldFactor(st, ttr) ==
  [st EXCEPT !.i = @ + 1, !.factors = @ + 1, !.types = {}, !.count = 0, !.ttr = ttr]

\* ttr > threshold: the segment goes on
MtldGrow(st, types, count, ttr) ==
  [st EXCEPT !.i = @ + 1, !.types = types, !.count = count, !.ttr = ttr]

MtldCompare(st, types, count, ttr) ==
  IF ~FloatLess(MtldThreshold, ttr)
    THEN MtldFactor(st, ttr)
    ELSE MtldGrow(st, types, count, ttr)

MtldCount(st, types, count) ==
  MtldCompare(st, types, count, Quot(Cardinality(types), count))

\* one iteration of `for w in words`
MtldIteration(st) ==
  MtldCount(st, st.types \union {st.words[st.i + 1]}, st.count + 1)

\* partial = (ttr - threshold) / (1.0 - threshold) if (1.0 - threshold) > 0 else 0.0
MtldPartialReversed(ttr) ==
  IF FloatLess(Float(0), FloatSub(Float(1), MtldThreshold))
    THEN FloatDiv(FloatSub(MtldThreshold, ttr), FloatSub(Float(1), MtldThreshold))
    ELSE Float(0)

MtldPartial(ttr) ==
  IF FloatLess(Float(0), FloatSub(Float(1), MtldThreshold))
    THEN FloatDiv(FloatSub(ttr, MtldThreshold), FloatSub(Float(1), MtldThreshold))
    ELSE Float(0)

\* factors after `if count > 0: factors += partial`
MtldFactors(st) ==
  IF st.count > 0
    THEN FloatAdd(Float(st.factors), MtldPartial(st.ttr))
    ELSE Float(st.factors)

\* max(factors, 1e-9): the second argument is returned only when it is greater
MaxEpsilon(factors) ==
  IF factors.num <= (factors.den - 1) \div Epsilon.den THEN Epsilon ELSE factors

MtldResult(st, factors) ==
  [pc |-> "return", words |-> st.words, i |-> st.i, factors |-> factors,
   types |-> st.types, count |-> st.count, ttr |-> st.ttr,
   result |-> FloatDiv(Float(Len(st.words)), MaxEpsilon(factors))]

\* the lists of words approx_mtld is called with
MtldVocabulary == {"a", "b", "c"}

MtldWords == SeqsUpTo(MtldVocabulary, MaxTokens)

\* approx_mtld(words) is called: `if not words: return 0.0`
ApproxMtldCall ==
  /\ mtld.pc = "idle"
  /\ \E words \in MtldWords :
       mtld' = IF words = <<>>
                 THEN [pc |-> "return", words |-> words, result |-> Float(0)]
                 ELSE MtldEnter(words)
  /\ UNCHANGED <<roll, arc, entry, style, lex, cont, mech, struct, beats, srv, tool>>

ApproxMtldIterate ==
  /\ mtld.pc = "loop"
  /\ mtld.i < Len(mtld.words)
  /\ mtld' = MtldIteration(mtld)
  /\ UNCHANGED <<roll, arc, entry, style, lex, cont, mech, struct, beats, srv, tool>>

ApproxMtldReturn ==
  /\ mtld.pc = "loop"
  /\ mtld.i = Len(mtld.words)
  /\ mtld' = MtldResult(mtld, MtldFactors(mtld))
  /\ UNCHANGED <<roll, arc, entry, style, lex, cont, mech, struct, beats, srv, tool>>

\* the sentences pronoun_ambiguity is called with
PronounSentences ==
  {<<"h", "e", " ", "s", "h", "e", " ", "i", "t", ".">>,
   <<"S", "h", "e", " ", "s", "a", "w", " ", "i", "t", ",", " ", "h", "e", " ", "h", "i", "d", ".">>,
   <<"T", "h", "e", "a", " ", "r", "a", "n", ".">>,
   <<"h", "e", " ", "r", "a", "n", ".">>,
   <<".", ".", ".">>,
   <<"r", "a", "n", " ", "h", "e", " ", "i", "t", " ", "i", "t", "s", ".">>}

PronounLists == SeqsUpTo(PronounSentences, MaxLen)

\* pronoun_ambiguity(sent_list) is called and reaches its loop
PronounEnter ==
  /\ cont.pc = "idle"
  /\ \E sent_list \in PronounLists :
       cont' = [pc |-> "loop", fn |-> "pronoun_ambiguity", sent_list |-> sent_list,
                i |-> 0, st |-> PronounStart]
  /\ UNCHANGED <<roll, arc, entry, style, lex, mech, struct, beats, srv, mtld, tool>>

\* one pass of `for s in sent_list'
PronounIterate ==
  /\ cont.pc = "loop"
  /\ cont.i < Len(cont.sent_list)
  /\ cont' = [cont EXCEPT !.i = @ + 1,
                          !.st = PronounStep(@, cont.sent_list[cont.i + 1])]
  /\ UNCHANGED <<roll, arc, entry, style, lex, mech, struct, beats, srv, mtld, tool>>

\* the loop has ended and pronoun_ambiguity returns its dict
PronounReturn ==
  /\ cont.pc = "loop"
  /\ cont.i = Len(cont.sent_list)
  /\ cont' = [pc |-> "return", fn |-> "pronoun_ambiguity", sent_list |-> cont.sent_list,
              i |-> cont.i, st |-> cont.st, result |-> PronounResult(cont.st)]
  /\ UNCHANGED <<roll, arc, entry, style, lex, mech, struct, beats, srv, mtld, tool>>

(***************************************************************************)
(* tools/memory_mcp: the MemoryTool.  A memory is a dict, here a function  *)
(* from its keys; self.memories is the list of the dicts and the file what *)
(* the last _save_memories wrote.  datetime.now().isoformat() is the       *)
(* reading of a clock that never goes back; the strings it gives compare   *)
(* as the readings do.  The values of uuid4 are taken to be distinct.      *)
(***************************************************************************)
ToolIdle == [fn |-> "none"]

\* MemoryTool(): no memory file yet, so _load_memories returns []
ToolInit ==
  [memories |-> <<>>, file |-> <<>>, now |-> 0, made |-> 0, call |-> ToolIdle]

\* the dict add_memory builds
NewMemory(memory_id, now, topic, summary, tags, priority) ==
  [id |-> memory_id, timestamp |-> now, topic |-> topic, summary |-> summary,
   tags |-> tags, priority |-> priority, last_accessed |-> now]

\* memory[key] = value, for a key the dict has or has not
SetKey(memory, key, value) == (key :> value) @@ memory

\* priority_order = {'high': 0, 'normal': 1, 'low': 2}
priority_order == [high |-> 0, normal |-> 1, low |-> 2]

\* priority_order.get(x['priority'], 1)
PriorityRank(memory) ==
  IF memory.priority \in DOMAIN priority_order THEN priority_order[memory.priority] ELSE 1

\* the sort key (priority_order.get(...), x['timestamp']) of a is below that of b
SortKeyLess(a, b) ==
  \/ PriorityRank(a) < PriorityRank(b)
  \/ PriorityRank(a) = PriorityRank(b) /\ a.timestamp < b.timestamp

\* the place of list[i] after list.sort(key=..., reverse=True): greater keys
\* first, equal keys in the order they had
PlaceByKey(list, i) ==
  1 + Cardinality({j \in 1..Len(list) :
                     \/ SortKeyLess(list[i], list[j])
                     \/ ~SortKeyLess(list[j], list[i]) /\ ~SortKeyLess(list[i], list[j]) /\ j < i})

\* the list of indexes into self.memories, sorted by the keys of the memories
RECURSIVE SortedFrom(_, _, _)
SortedFrom(memories, idxs, k) ==
  IF k > Len(idxs) THEN <<>>
  ELSE <<idxs[CHOOSE i \in 1..Len(idxs) :
                PlaceByKey([n \in 1..Len(idxs) |-> memories[idxs[n]]], i) = k]>>
       \o SortedFrom(memories, idxs, k + 1)

\* the indexes, in list order, of the memories that satisfy Keep
RECURSIVE IndexesFrom(_, _, _)
IndexesFrom(memories, Keep(_), i) ==
  IF i > Len(memories) THEN <<>>
  ELSE (IF Keep(memories[i]) THEN <<i>> ELSE <<>>) \o IndexesFrom(memories, Keep, i + 1)

\* an optional argument: None, or the value given
None == <<>>

Given(value) == <<value>>

\* `if topic_filter:` and `if tag_filter:` are false for None and for ""
PassesTopic(memory, topic_filter) ==
  \/ topic_filter = None
  \/ topic_filter[1] = <<>>
  \/ Contains(str_lower(memory.topic), str_lower(topic_filter[1]))

PassesTag(memory, tag_filter) ==
  \/ tag_filter = None
  \/ tag_filter[1] = <<>>
  \/ tag_filter[1] \in Range(memory.tags)

Filtered(memories, topic_filter, tag_filter) ==
  LET Keep(m) == PassesTopic(m, topic_filter) /\ PassesTag(m, tag_filter)
  IN  IndexesFrom(memories, Keep, 1)

\* list[:limit]
SliceTo(list, limit) ==
  SubSeq(list, 1, IF limit >= 0 THEN Min(limit, Len(list)) ELSE Max(Len(list) + limit, 0))

\* `if limit: filtered = filtered[:limit]`, false for None and for 0
Limited(list, limit) ==
  IF limit = None THEN list
  ELSE IF limit[1] = 0 THEN list
  ELSE SliceTo(list, limit[1])

\* self.memories with last_accessed set in the memories returned
Accessed(memories, idxs, now) ==
  [i \in 1..Len(memories) |->
     IF i \in Range(idxs) THEN SetKey(memories[i], "last_accessed", now) ELSE memories[i]]

MemoriesAt(memories, idxs) == [k \in 1..Len(idxs) |-> memories[idxs[k]]]

\* the indexes of the memories that get_memories returns, in the order returned
GetIndexes(memories, topic_filter, tag_filter, limit) ==
  Limited(SortedFrom(memories, Filtered(memories, topic_filter, tag_filter), 1), limit)

\* score of search_memories for one memory
SearchScore(memory, query_lower) ==
  (IF Contains(str_lower(memory.topic), query_lower) THEN 2 ELSE 0)
  + (IF Contains(str_lower(memory.summary), query_lower) THEN 1 ELSE 0)
  + (IF \E t \in Range(memory.tags) : Contains(str_lower(t), query_lower) THEN 1 ELSE 0)

\* self.memories after the loop of search_memories: memory['_search_score'] =
\* score is an assignment to the dict of the list
Scored(memories, query_lower) ==
  [i \in 1..Len(memories) |->
     IF SearchScore(memories[i], query_lower) > 0
       THEN SetKey(memories[i], "_search_score", SearchScore(memories[i], query_lower))
       ELSE memories[i]]

\* the place of matches[i] after matches.sort(key=_search_score, reverse=True)
PlaceByScore(memories, idxs, i) ==
  1 + Cardinality({j \in 1..Len(idxs) :
                     \/ memories[idxs[j]]["_search_score"] > memories[idxs[i]]["_search_score"]
                     \/ /\ memories[idxs[j]]["_search_score"] = memories[idxs[i]]["_search_score"]
                        /\ j < i})

SortedByScoreOf(memories, idxs) ==
  [k \in 1..Len(idxs) |-> idxs[CHOOSE i \in 1..Len(idxs) : PlaceByScore(memories, idxs, i) = k]]

MatchIndexes(memories, query_lower) ==
  LET Keep(m) == SearchScore(m, query_lower) > 0
  IN  IndexesFrom(memories, Keep, 1)

\* matches[:limit] of search_memories, as indexes into the scored list
SearchIndexes(scored, query_lower, limit) ==
  SliceTo(SortedByScoreOf(scored, MatchIndexes(scored, query_lower)), limit)

\* the memory of update_memory with the keys of updates it accepts set
RECURSIVE Updated(_, _, _)
Updated(memory, updates, keys) ==
  IF keys = {} THEN memory
  ELSE LET key == CHOOSE k \in keys : TRUE
       IN  Updated(IF key \in {"topic", "summary", "tags", "priority"}
                     THEN SetKey(memory, key, updates[key]) ELSE memory,
                   updates, keys \ {key})

\* the first index whose memory has the id, or 0
FirstWithId(memories, memory_id) ==
  IF \E i \in 1..Len(memories) : memories[i].id = memory_id
    THEN CHOOSE i \in 1..Len(memories) :
           /\ memories[i].id = memory_id
           /\ \A j \in 1..(i - 1) : memories[j].id # memory_id
    ELSE 0

\* [m for m in self.memories if m['id'] != memory_id]
WithoutId(memories, memory_id) ==
  LET Keep(m) == m.id # memory_id
  IN  MemoriesAt(memories, IndexesFrom(memories, Keep, 1))

\* the topic, summary and tags that add_memory is called with
MemoryInputs ==
  {[topic |-> <<"P", "l", "o", "t">>, summary |-> <<"a", "r", "c">>,
    tags |-> <<<<"p", "l", "o", "t">>>>],
   [topic |-> <<"C", "a", "s", "t">>, summary |-> <<"a", "r", "c">>, tags |-> <<>>]}

Priorities == {"high", "normal", "low"}

Updates == {[priority |-> "high"], [priority |-> "low", id |-> 0]}

Queries == {<<"P", "L", "O", "T">>, <<"a">>}

TopicFilters == {None, Given(<<"p", "l">>)}

TagFilters == {None, Given(<<"p", "l", "o", "t">>)}

Limits == {None, Given(0), Given(1)}

\* limit: int = 5 of search_memories
DefaultSearchLimit == 5

\* time passes
ToolTick ==
  /\ tool.now < MaxClock
  /\ tool' = [tool EXCEPT !.now = @ + 1]
  /\ UNCHANGED <<roll, arc, entry, style, lex, cont, mech, struct, beats, srv, mtld>>

\* add_memory(topic, summary, tags, priority)
AddMemory ==
  /\ tool.made < MaxMemories
  /\ \E input \in MemoryInputs, priority \in Priorities :
       LET memories == Append(tool.memories,
                              NewMemory(tool.made + 1, tool.now, input.topic, input.summary,
                                        input.tags, priority))
       IN  tool' = [tool EXCEPT !.memories = memories, !.file = memories, !.made = @ + 1,
                                !.call = [fn |-> "add_memory", result |-> tool.made + 1]]
  /\ UNCHANGED <<roll, arc, entry, style, lex, cont, mech, struct, beats, srv, mtld>>

\* get_memories(topic_filter, tag_filter, limit)
GetMemories ==
  /\ \E topic_filter \in TopicFilters, tag_filter \in TagFilters,
        limit \in Limits :
       LET idxs == GetIndexes(tool.memories, topic_filter, tag_filter, limit)
           memories == Accessed(tool.memories, idxs, tool.now)
       IN  tool' = [tool EXCEPT !.memories = memories, !.file = memories,
                                !.call = [fn |-> "get_memories", topic_filter |-> topic_filter,
                                          tag_filter |-> tag_filter, limit |-> limit,
                                          result |-> MemoriesAt(memories, idxs)]]
  /\ UNCHANGED <<roll, arc, entry, style, lex, cont, mech, struct, beats, srv, mtld>>

\* update_memory(memory_id, **updates)
UpdateMemory ==
  /\ \E memory_id \in 1..MaxMemories, updates \in Updates :
       LET i == FirstWithId(tool.memories, memory_id)
           memories == [tool.memories EXCEPT
                          ![i] = SetKey(Updated(@, updates, DOMAIN updates),
                                        "last_accessed", tool.now)]
       IN  IF i = 0
             THEN tool' = [tool EXCEPT !.call = [fn |-> "update_memory", result |-> FALSE]]
             ELSE tool' = [tool EXCEPT !.memories = memories, !.file = memories,
                                       !.call = [fn |-> "update_memory", result |-> TRUE]]
  /\ UNCHANGED <<roll, arc, entry, style, lex, cont, mech, struct, beats, srv, mtld>>

\* delete_memory(memory_id)
DeleteMemory ==
  /\ \E memory_id \in 1..MaxMemories :
       LET memories == WithoutId(tool.memories, memory_id)
       IN  IF Len(memories) < Len(tool.memories)
             THEN tool' = [tool EXCEPT !.memories = memories, !.file = memories,
                                       !.call = [fn |-> "delete_memory", result |-> TRUE]]
             ELSE tool' = [tool EXCEPT !.call = [fn |-> "delete_memory", result |-> FALSE]]
  /\ UNCHANGED <<roll, arc, entry, style, lex, cont, mech, struct, beats, srv, mtld>>

\* search_memories(query, limit): nothing is saved
SearchMemories ==
  /\ \E query \in Queries, limit \in {DefaultSearchLimit, 1} :
       LET memories == Scored(tool.memories, str_lower(query))
       IN  tool' = [tool EXCEPT
                      !.memories = memories,
                      !.call = [fn |-> "search_memories", query |-> query, limit |-> limit,
                                result |-> MemoriesAt(memories,
                                             SearchIndexes(memories, str_lower(query), limit))]]
  /\ UNCHANGED <<roll, arc, entry, style, lex, cont, mech, struct, beats, srv, mtld>>

(***************************************************************************)
(* Specifications.                                                         *)
(***************************************************************************)
Init ==
  /\ roll = RollIdle
  /\ arc = [pc |-> "idle"]
  /\ entry = [pc |-> "idle"]
  /\ style = [pc |-> "idle"]
  /\ lex = [pc |-> "idle"]
  /\ cont = [pc |-> "idle"]
  /\ mech = [pc |-> "idle"]
  /\ struct = [pc |-> "idle"]
  /\ beats = [pc |-> "idle"]
  /\ srv = [pc |-> "idle"]
  /\ mtld = [pc |-> "idle"]
  /\ tool = ToolInit

NextRolling == RollingCall \/ RollingIdentity \/ RollingIterate \/ RollingReturn

SpecRolling == Init /\ [][NextRolling]_vars

NextArc == Analyze

SpecArc == Init /\ [][NextArc]_vars

NextEntry == CliMain \/ McpCallTool \/ HttpAnalyze \/ StdioCallTool

SpecEntry == Init /\ [][NextEntry]_vars

NextStyle == FleschReadingEase \/ FleschKincaidGrade \/ GunningFogIndex \/ AnalyzeStyle

SpecStyle == Init /\ [][NextStyle]_vars

NextLex == LexAnalyze

SpecLex == Init /\ [][NextLex]_vars

NextVariants == ProbableVariants

SpecVariants == Init /\ [][NextVariants]_vars

NextVariantsWith == ProbableVariantsWith

SpecVariantsWith == Init /\ [][NextVariantsWith]_vars

NextRepetition == RepetitionChecks

SpecRepetition == Init /\ [][NextRepetition]_vars

NextNormalize ==
  \/ Init /\ NormalizeText
  \/ NormalizeTextAgain
  \/ Init /\ StructuralNormalizeText
  \/ StructuralNormalizeTextAgain

SpecNormalize == Init /\ [][NextNormalize]_vars

NextServer ==
  \/ SrvStart \/ ReadLine \/ ReadEof \/ SkipLine \/ ParseLine
  \/ HandleRequest \/ WriteResponse \/ NoResponse \/ WriteInternalError

SpecServer == Init /\ [][NextServer]_vars

NextContinuity == AnalyzeContinuity \/ AnalyzeContinuityAgain

SpecContinuity == Init /\ [][NextContinuity]_vars

NextRepetitionLoop == RepetitionEnter \/ RepetitionIterate \/ RepetitionReturn

SpecRepetitionLoop == Init /\ [][NextRepetitionLoop]_vars

NextWindows == LexAnalyzeWindows

SpecWindows == Init /\ [][NextWindows]_vars

NextPronoun == PronounEnter \/ PronounIterate \/ PronounReturn

SpecPronoun == Init /\ [][NextPronoun]_vars

NextInWindow == InWindowCall \/ ScoreSentenceCall \/ BeatsTaken

SpecInWindow == Init /\ [][NextInWindow]_vars

NextTopK == AnalyzeBeatsTopK

SpecTopK == Init /\ [][NextTopK]_vars

NextScenes == AnalyzeChapterScenes

SpecScenes == Init /\ [][NextScenes]_vars

NextMemory ==
  ToolTick \/ AddMemory \/ GetMemories \/ UpdateMemory \/ DeleteMemory \/ SearchMemories

SpecMemory == Init /\ [][NextMemory]_vars

NextMtld == ApproxMtldCall \/ ApproxMtldIterate \/ ApproxMtldReturn

SpecMtld == Init /\ [][NextMtld]_vars

\* one core analysis is run on a document, from the initial state
NextCore ==
  \/ Init /\ AnalyzeMechanics
  \/ Init /\ AnalyzeChapter
  \/ Init /\ AnalyzeBeats
  \/ Init /\ AnalyzeContinuity
  \/ Init /\ Analyze
  \/ Init /\ LexAnalyze
  \/ Init /\ AnalyzeStyle

SpecCore == Init /\ [][NextCore]_vars

(***************************************************************************)
(* Claims.                                                                 *)
(***************************************************************************)
\* the sum of values[lo..hi]
RECURSIVE SumRange(_, _, _)
SumRange(values, lo, hi) ==
  IF lo > hi THEN 0 ELSE values[lo] + SumRange(values, lo + 1, hi)

\* C1: when rolling(s, w) returns for a window w >= 1, the result has one
\* element per input value, and element i (counted from 0) is the arithmetic
\* mean of the last min(w, i+1) input values ending at i; for w = 1 the
\* result is the input series itself.
C1_RollingIsCausalMean ==
  (roll.pc = "return" /\ roll.window >= 1) =>
    /\ Len(roll.out) = Len(roll.values)
    /\ \A k \in 1..Len(roll.values) :
         LET n == Min(roll.window, k)
         IN  roll.out[k] = Quot(SumRange(roll.values, k - n + 1, k), n)
    /\ roll.window = 1 => roll.out = [k \in 1..Len(roll.values) |-> Float(roll.values[k])]

\* a return from a series longer than the window, whose mean is not an integer
C1_Witness ==
  /\ roll.pc = "return"
  /\ roll.window = 2
  /\ Len(roll.values) = 4
  /\ roll.out[4] = [num |-> 1, den |-> 2]

\* the eight emotion categories
EmotionCategories ==
  {"joy", "sadness", "anger", "fear", "trust", "disgust", "surprise", "anticipation"}

\* the number of positions of toks that hold a word of S
Occurrences(toks, S) == Cardinality({j \in 1..Len(toks) : toks[j] \in S})

\* C2: for every document and window w >= 1, analyze returns a valence
\* rolling series and a rolling series for each of the eight emotion
\* categories, each with exactly one element per sentence of the document.
C2_SeriesLengthsMatchSentences ==
  (arc.pc = "return" /\ arc.window >= 1) =>
    /\ arc.result.raised = "none"
    /\ Len(arc.result.val_roll) = Len(sentences(arc.text))
    /\ DOMAIN arc.result.emo_roll = EmotionCategories
    /\ \A k \in EmotionCategories :
         Len(arc.result.emo_roll[k]) = Len(sentences(arc.text))
    /\ Len(arc.result.scores) = Len(sentences(arc.text))

\* a document of three sentences analysed with a window of 2
C2_Witness ==
  /\ arc.pc = "return"
  /\ arc.window = 2
  /\ Len(sentences(arc.text)) = 3
  /\ Len(arc.result.val_roll) = 3

\* the window size an entry point was handed, once it has answered
EntryWindow ==
  IF entry.point = "cli" THEN entry.window
  ELSE Get(entry.arguments, "window_size", DefaultWindow)

\* the text an entry point was handed, once it has answered
EntryText ==
  IF entry.point = "cli" THEN entry.text
  ELSE Get(entry.arguments, "text", <<>>)

\* the answer of the entry point tells its caller of an error
EntrySignalsError ==
  CASE entry.point = "cli" -> entry.outcome.raised # "none"
    [] entry.point = "mcp" -> entry.outcome.raised # "none" \/ entry.outcome.isError
    [] entry.point = "http" -> entry.outcome.status # 200
    [] entry.point = "stdio" -> "error" \in DOMAIN entry.outcome

\* C3: at every entry point that takes a window size from outside (CLI main,
\* the MCP and HTTP request models, the stdio tools/call), a window size <= 0
\* is answered with an error and no analysis is made.
C3_NonPositiveWindowIsSignaled ==
  (entry.pc = "done" /\ EntryWindow <= 0)
    => (EntrySignalsError /\ entry.outcome.core = <<>>)

\* C4: the MCP analyzer, the HTTP analyzer and the stdio tools/call each
\* answer a text longer than the maximum input length with an error, before
\* the core analyze is called.
C4_TooLongTextIsRejected ==
  (entry.pc = "done" /\ entry.point \in {"mcp", "http", "stdio"}
     /\ Len(EntryText) > MaxTextLength)
    => (EntrySignalsError /\ entry.outcome.core = <<>>)

\* C5: for every sentence, valence_raw is the number of token occurrences in
\* POS minus the number in NEG, and each category's count is the number of
\* token occurrences in that category's word set (a token counts in every
\* set that contains it, and as often as it occurs).
C5_ScoreCountsTokenOccurrences ==
  arc.pc = "return" =>
    \A i \in 1..Len(arc.result.scores) :
      LET sc == arc.result.scores[i]
          toks == tokens(sc.text)
      IN  /\ sc.valence_raw = Occurrences(toks, POS) - Occurrences(toks, NEG)
          /\ \A k \in EmotionCategories :
               k \in DOMAIN sc.emotions /\ sc.emotions[k] = Occurrences(toks, EMO[k])

\* a sentence that holds the same word twice, a word ("sad") that is in NEG and
\* in the sadness set at once: both occurrences count, in both
C5_Witness ==
  /\ arc.pc = "return"
  /\ \E i \in 1..Len(arc.result.scores) :
       LET sc == arc.result.scores[i]
       IN  /\ Len(tokens(sc.text)) = 2
           /\ sc.emotions["sadness"] = 2
           /\ sc.valence_raw = -2

\* the words of all lexicons
Lexicon == POS \cup NEG \cup UNION {EMO[k] : k \in EmotionCategories}

\* C6: every SentenceScore has an integer valence and an emotions map with
\* exactly the eight category keys, each a non-negative integer; a sentence
\* whose tokens are all outside the lexicons has valence 0 and all counts 0.
C6_ScoreShape ==
  arc.pc = "return" =>
    \A i \in 1..Len(arc.result.scores) :
      LET sc == arc.result.scores[i]
      IN  /\ sc.valence_raw \in Int
          /\ DOMAIN sc.emotions = EmotionCategories
          /\ \A k \in DOMAIN sc.emotions : sc.emotions[k] \in Nat
          /\ (Range(tokens(sc.text)) \cap Lexicon = {}) =>
                /\ sc.valence_raw = 0
                /\ \A k \in DOMAIN sc.emotions : sc.emotions[k] = 0

\* a scored sentence that has tokens, none of them in a lexicon
C6_Witness ==
  /\ arc.pc = "return"
  /\ \E i \in 1..Len(arc.result.scores) :
       LET sc == arc.result.scores[i]
       IN  /\ tokens(sc.text) # <<>>
           /\ Range(tokens(sc.text)) \cap Lexicon = {}
           /\ sc.valence_raw = 0

\* C7: analyze on the empty string, for any window, raises nothing and
\* returns no sentence scores, summary.sentences = 0, avg_valence = 0.0, an
\* empty valence rolling series and an empty rolling series per category.
C7_EmptyDocument ==
  (arc.pc = "return" /\ arc.text = <<>>) =>
    /\ arc.result.raised = "none"
    /\ arc.result.scores = <<>>
    /\ arc.result.summary.sentences = 0
    /\ arc.result.summary.avg_valence = Float(0)
    /\ arc.result.val_roll = <<>>
    /\ DOMAIN arc.result.emo_roll = EmotionCategories
    /\ \A k \in EmotionCategories : arc.result.emo_roll[k] = <<>>

\* analyze has returned from the empty string with a window above 1
C7_Witness == arc.pc = "return" /\ arc.text = <<>> /\ arc.window = 3

\* C8: on the scenario document with window 3, analyze finds 3 sentences,
\* sentence 0 has valence_raw > 0, sentence 1 has valence_raw < 0, and
\* top_emotions (at most three categories) holds both joy and sadness.
C8_Scenario ==
  (arc.pc = "return" /\ arc.text = ScenarioText /\ arc.window = 3) =>
    /\ arc.result.raised = "none"
    /\ arc.result.summary.sentences = 3
    /\ Len(arc.result.scores) = 3
    /\ arc.result.scores[1].index = 0 /\ arc.result.scores[1].valence_raw > 0
    /\ arc.result.scores[2].index = 1 /\ arc.result.scores[2].valence_raw < 0
    /\ Len(arc.result.summary.top_emotions) <= 3
    /\ "joy" \in Range(arc.result.summary.top_emotions)
    /\ "sadness" \in Range(arc.result.summary.top_emotions)

\* analyze has returned from the scenario document with window 3
C8_Witness ==
  /\ arc.pc = "return" /\ arc.text = ScenarioText /\ arc.window = 3
  /\ arc.result.summary.top_emotions = <<"joy", "sadness", "anger">>

\* the three readability scores are the float 0.0
ZeroScores(report) ==
  /\ report.flesch_reading_ease = Float(0)
  /\ report.flesch_kincaid_grade = Float(0)
  /\ report.gunning_fog = Float(0)

\* C9: flesch_reading_ease, flesch_kincaid_grade and gunning_fog_index each
\* return 0.0 and do not raise when the sentence count or the word count is
\* 0, whatever the third argument; analyze_style on a document with no
\* sentence and no word returns a report with 0.0 for all three.
C9_ZeroGuards ==
  /\ (style.pc = "return" /\ style.fn # "analyze_style"
        /\ (style.args[1] = 0 \/ style.args[2] = 0))
       => style.result = Returned(Float(0))
  /\ (style.pc = "return" /\ style.fn = "analyze_style" /\ Strip(style.text) = <<>>)
       => (style.result.raised = "none" /\ ZeroScores(style.result))
  /\ (style.pc = "return" /\ style.fn = "analyze_style" /\ style.result.raised = "none"
        /\ (style.result.total_words = 0 \/ style.result.total_sentences = 0))
       => ZeroScores(style.result)

\* flesch_kincaid_grade has returned from no words in two sentences, with a
\* syllable count above zero
C9_Witness ==
  /\ style.pc = "return" /\ style.fn = "flesch_kincaid_grade"
  /\ style.args = <<0, 2, 1>>
  /\ style.result = Returned(Float(0))

\* no token of the text occurs twice
NoRepeatedTokens(words) == \A i, j \in 1..Len(words) : i # j => words[i] # words[j]

\* 0 <= x <= 1 on floats
InUnitInterval(x) == 0 <= x.num /\ x.num <= x.den

\* C10 as stated: for every document 0 <= TTR <= 1, and TTR is 1.0 whenever
\* the document has no repeated tokens.
C10_TTRIsOneWithoutRepeats ==
  lex.pc = "return" =>
    /\ InUnitInterval(lex.report.TTR)
    /\ NoRepeatedTokens(lex_tokens(lex.text)) => lex.report.TTR = Float(1)

\* C10, amended: for every document 0 <= TTR <= 1; TTR is 1.0 whenever the
\* document has at least one token and no repeated tokens, and 0.0 when it
\* has no token.
C10_TTRBounds ==
  lex.pc = "return" =>
    /\ InUnitInterval(lex.report.TTR)
    /\ (lex_tokens(lex.text) # <<>> /\ NoRepeatedTokens(lex_tokens(lex.text)))
         => lex.report.TTR = Float(1)
    /\ lex_tokens(lex.text) = <<>> => lex.report.TTR = Float(0)

\* analyze has returned from a document of two different tokens, and from
\* nothing else
C10_Witness ==
  /\ lex.pc = "return"
  /\ lex.report.N_tokens = 2 /\ lex.report.V_types = 2
  /\ lex.report.TTR = Float(1)

\* C11: for every token sequence, the empty one and those of one token
\* among them, TTR, Root-TTR, Herdan's C and Maas's a are computed with no
\* division by zero and no logarithm of a non-positive number (analyze
\* returns), and each is 0.0 when N = 0 or V = 0.
C11_RatiosAreGuarded ==
  lex.pc = "return" =>
    /\ lex.report.raised = "none"
    /\ (lex.report.N_tokens = 0 \/ lex.report.V_types = 0) =>
         /\ lex.report.TTR = Float(0)
         /\ lex.report.RootTTR = Float(0)
         /\ lex.report.HerdanC = Float(0)
         /\ lex.report.MaasA = Float(0)

\* analyze has returned from the document with no token
C11_Witness ==
  /\ lex.pc = "return" /\ lex.text = <<>>
  /\ lex.report.raised = "none" /\ lex.report.N_tokens = 0
  /\ lex.report.HerdanC = Float(0)

\* the pair (a, b) is in the list probable_variants returned, in either order
ReportsPair(result, a, b) ==
  \E i \in 1..Len(result) :
    \/ result[i].a = a /\ result[i].b = b
    \/ result[i].a = b /\ result[i].b = a

\* C12: with the default cutoff, "Thea" and "Thia" (one character replaced)
\* are reported as a probable-variant pair whenever both are among the
\* tokens, and "Thea" and "John" never are.
C12_SingleEditIsReported ==
  (cont.pc = "return" /\ cont.fn = "probable_variants") =>
    /\ {<<"T", "h", "e", "a">>, <<"T", "h", "i", "a">>} \subseteq Range(cont.tokens)
         => ReportsPair(cont.result, <<"T", "h", "e", "a">>, <<"T", "h", "i", "a">>)
    /\ ~ReportsPair(cont.result, <<"T", "h", "e", "a">>, <<"J", "o", "h", "n">>)

\* the positions i at which the lower-cased tokens i and i+1 both equal w
DupPositions(words, w) ==
  {i \in 1..(Len(words) - 1) : words[i] = w /\ words[i + 1] = w}

DupScenario ==
  <<"t", "h", "e", " ", "t", "h", "e", " ", "c", "a", "t", " ", "s", "a", "t", ".">>

ReportsDup(rep, w) == \E i \in 1..Len(rep) : rep[i][1] = w

DupReportIsExact(words, rep) ==
  /\ \A i \in 1..Len(rep) :
       /\ rep[i][2] >= 1
       /\ rep[i][2] = Cardinality(DupPositions(words, rep[i][1]))
  /\ \A i, j \in 1..Len(rep) : rep[i][1] = rep[j][1] => i = j
  /\ \A k \in 1..Len(words) :
       DupPositions(words, words[k]) # {} => ReportsDup(rep, words[k])

\* C13: immediate_duplicate_words reports a word w with count c exactly when
\* there are c >= 1 positions i at which the lower-cased tokens i and i+1 both
\* equal w; "the the cat sat." reports a hit for "the".
C13_ImmediateDuplicatesAreExact ==
  (mech.pc = "return" /\ mech.fn = "repetition_checks") =>
    /\ DupReportIsExact(LowerAll(mech_tokens(mech.text)),
                        mech.result.immediate_duplicate_words)
    /\ mech.text = DupScenario =>
         ReportsDup(mech.result.immediate_duplicate_words, <<"t", "h", "e">>)

C13_Witness ==
  /\ mech.pc = "return"
  /\ mech.fn = "repetition_checks"
  /\ mech.text = DupScenario
  /\ mech.result.immediate_duplicate_words = << <<<<"t", "h", "e">>, 1>> >>

ArcAllZero(r) ==
  /\ r.raised = "none"
  /\ r.scores = <<>>
  /\ r.val_roll = <<>>
  /\ \A k \in Range(EMO_KEYS) : r.emo_roll[k] = <<>>
  /\ r.summary.sentences = 0
  /\ r.summary.avg_valence = Float(0)
  /\ r.summary.top_emotions = <<>>

LexAllZero(r) ==
  /\ r.raised = "none"
  /\ r.N_tokens = 0 /\ r.V_types = 0 /\ r.V1_hapax = 0 /\ r.V2_dis = 0
  /\ r.TTR = Float(0) /\ r.RootTTR = Float(0) /\ r.HerdanC = Float(0)
  /\ r.MaasA = Float(0)
  /\ r.window_TTR_min = Float(0) /\ r.window_TTR_avg = Float(0)
  /\ r.window_TTR_max = Float(0)
  /\ r.content_token_ratio = Float(0)

StyleAllZero(r) ==
  /\ r.raised = "none"
  /\ ZeroScores(r)
  /\ r.total_words = 0 /\ r.total_sentences = 0
  /\ r.total_syllables = 0 /\ r.complex_words = 0

MechAllZero(r) ==
  /\ r.total_words = 0
  /\ r.spacing_layout.lines_with_edge_spaces = 0
  /\ r.spacing_layout.blank_line_runs_3plus = 0
  /\ r.spacing_layout.line_count = 0
  /\ r.repetition.immediate_duplicate_words = <<>>
  /\ r.repetition.top_repeated_words_overall = <<>>
  /\ r.repetition.window_repetition_flags = <<>>
  /\ r.repetition.total_words = 0

ContAllZero(r) ==
  /\ r.canonical_matches = <<>> /\ r.canonical_alias_hits = <<>>
  /\ r.probable_variants = <<>> /\ r.hyphenation_pairs = <<>>
  /\ r.time_place_markers.weekdays = <<>>
  /\ r.time_place_markers.months = <<>>
  /\ r.time_place_markers.relative = <<>>
  /\ r.ambiguous_sentences = 0 /\ r.max_pronoun_led_run = 0
  /\ r.first_person_ratio = Float(0) /\ r.second_person_ratio = Float(0)
  /\ r.third_person_ratio = Float(0)
  /\ r.past_ed_ratio = Float(0) /\ r.present_aux_ratio = Float(0)
  /\ r.quote_style.straight_quotes = 0 /\ r.quote_style.curly_quotes = 0

BeatsAllZero(r) == \A beat \in Range(BEATS) : r[beat] = <<>>

StructAllZero(r) ==
  /\ r.word_count = 0 /\ r.sentence_count = 0 /\ r.paragraph_count = 0
  /\ r.scene_count = 0
  /\ r.avg_words_per_scene = Float(0)
  /\ r.scene_boundaries = <<>>
  /\ r.last_line = <<>>

\* C14: for an empty document each of the seven core analyses (emotion arc,
\* lexical diversity, style/readability, mechanics, continuity, beats,
\* structural) returns without raising, with every count, ratio, density and
\* score 0 and every list empty.
C14_EmptyDocumentIsAllZero ==
  /\ (arc.pc = "return" /\ arc.text = <<>>) => ArcAllZero(arc.result)
  /\ (lex.pc = "return" /\ lex.text = <<>>) => LexAllZero(lex.report)
  /\ (style.pc = "return" /\ style.fn = "analyze_style" /\ style.text = <<>>)
       => StyleAllZero(style.result)
  /\ (mech.pc = "return" /\ mech.fn = "analyze_mechanics" /\ mech.text = <<>>)
       => MechAllZero(mech.result)
  /\ (cont.pc = "return" /\ cont.fn = "analyze_continuity" /\ cont.text = <<>>)
       => ContAllZero(cont.result)
  /\ (beats.pc = "return" /\ beats.text = <<>>) => BeatsAllZero(beats.result)
  /\ (struct.pc = "return" /\ struct.text = <<>>) => StructAllZero(struct.result)

\* C15: running the analysis twice on the same document with the same
\* configuration gives identical report values, orders included.
C15_RerunIsIdentical ==
  (cont.pc = "again" /\ cont.fn = "analyze_continuity") => cont.again = cont.result

\* the aliases of a canon entry without regard to case
FoldedAliases(e) == {str_lower(a) : a \in e.aliases \ {<<>>}}

\* the tokens equal to a single-word alias of the entry
TokenOccurrences(folded, words) ==
  {i \in 1..Len(words) : \E a \in folded : ~IsPhrase(a) /\ str_lower(words[i]) = a}

\* the word-bounded matches of the multi-word aliases of the entry
PhraseOccurrences(folded, text_n) ==
  {m \in folded \X (1..Len(text_n)) : IsPhrase(m[1]) /\ m[2] \in PhraseHits(text_n, m[1])}

\* the places where an alias of the entry occurs
AliasOccurrences(e, text_n) ==
  TokenOccurrences(FoldedAliases(e), cont_word_tokens(text_n))
    \cup PhraseOccurrences(FoldedAliases(e), text_n)

OccurrenceCount(e, text_n) == Cardinality(AliasOccurrences(e, text_n))

ExpectedMatches(canon, text_n) ==
  LET seen == SelectSeq(canon, LAMBDA e : OccurrenceCount(e, text_n) > 0)
  IN  [i \in 1..Len(seen) |-> <<seen[i].name, OccurrenceCount(seen[i], text_n)>>]

\* C16: canonical_matches[name] is the number of occurrences in the text of
\* the entry's aliases compared case-insensitively, each occurrence counted
\* once (a single-word name that appears n times gives n); entries with no
\* occurrence are omitted.
C16_OccurrencesCountOnce ==
  (cont.pc = "return" /\ cont.fn = "analyze_continuity") =>
    cont.result.canonical_matches
      = ExpectedMatches(cont.canon, cont_normalize_text(cont.text))

\* s has no carriage return and none of its lines ends in whitespace
IsNormalized(s) ==
  /\ \A i \in 1..Len(s) : s[i] # "\r"
  /\ \A k \in 1..Len(SplitLines(s)) :
       SplitLines(s)[k] = <<>>
         \/ SplitLines(s)[k][Len(SplitLines(s)[k])] \notin Whitespace

\* C17: normalize_text returns a string with no carriage return in which no
\* line ends in whitespace, and applied to its own output it returns that
\* output unchanged.
C17_NormalizeTextIsIdempotent ==
  /\ (style.pc \in {"return", "again"} /\ style.fn = "normalize_text")
       => IsNormalized(style.result)
  /\ (style.pc = "again" /\ style.fn = "normalize_text")
       => style.result = style.text
  /\ (struct.pc \in {"return", "again"} /\ struct.fn = "normalize_text")
       => IsNormalized(struct.result)
  /\ (struct.pc = "again" /\ struct.fn = "normalize_text")
       => struct.result = struct.text

\* normalize_text has been applied to "a \r\n\t" and then to its output "a\n"
C17_Witness ==
  /\ style.pc = "again"
  /\ style.fn = "normalize_text"
  /\ style.text = <<"a", "\n">>
  /\ style.result = <<"a", "\n">>

\* the input line for which the k-th entry of stdout was written
ResponseFor(k) == srv.stdout[k].line

\* the entries of stdout written for the n-th input line
ResponsesTo(n) == {k \in 1..Len(srv.stdout) : ResponseFor(k) = n}

\* the n-th line is a JSON object other than notifications/initialized
IsRequest(ln) ==
  /\ ln.kind = "json"
  /\ IsDict(ln.value)
  /\ Get(ln.value.fields, "method", "") # "notifications/initialized"

\* the n-th input line has been dealt with
Processed(n) == n < srv.nread \/ (n = srv.nread /\ srv.pc \in {"read", "stopped"})

SrvRunning == srv.pc # "idle"

\* C18: responses are written in the order the requests were read, at most
\* one per input line and before the next line is read; every request that
\* parses as a JSON object other than notifications/initialized gets exactly
\* one response carrying that request's id; blank and non-JSON lines get none
\* and do not stop the loop, which ends only at the end of input.
C18_OneResponsePerRequestInOrder ==
  SrvRunning =>
    /\ \A j, k \in 1..Len(srv.stdout) : j < k => ResponseFor(j) < ResponseFor(k)
    /\ \A k \in 1..Len(srv.stdout) : ResponseFor(k) <= srv.nread
    /\ \A n \in 1..Len(srv.lines) :
         Processed(n) =>
           /\ IsRequest(srv.lines[n]) =>
                /\ Cardinality(ResponsesTo(n)) = 1
                /\ \A k \in ResponsesTo(n) :
                     srv.stdout[k].response.id
                       = Get(srv.lines[n].value.fields, "id", "None")
           /\ srv.lines[n].kind \in {"blank", "text"} => ResponsesTo(n) = {}
    /\ srv.pc = "stopped" => srv.nread = Len(srv.lines)

\* the notifications/* methods that clients send
NotificationMethods == {"notifications/initialized", "notifications/cancelled"}

\* a request whose method is a notification, or that carries no id
IsNotification(ln) ==
  /\ ln.kind = "json"
  /\ IsDict(ln.value)
  /\ \/ Get(ln.value.fields, "method", "") \in NotificationMethods
     \/ "id" \notin DOMAIN ln.value.fields

\* C19: the stdio server never writes a response for a notification: a
\* request with a notifications/* method, or with no id, produces no output
\* line.
C19_NotificationsGetNoResponse ==
  SrvRunning =>
    \A n \in 1..Len(srv.lines) : IsNotification(srv.lines[n]) => ResponsesTo(n) = {}

\* the tokens of positions from+1..to form a segment that is closed at `to`:
\* its running TTR is at or below the threshold there and nowhere before
ClosedSegment(words, from, to) ==
  /\ from < to
  /\ \A j \in (from + 1)..to :
       ~FloatLess(MtldThreshold,
                  Quot(Cardinality({words[k] : k \in (from + 1)..j}), j - from))
         <=> j = to

LastCut(cuts) == IF cuts = {} THEN 0 ELSE CHOOSE c \in cuts : \A d \in cuts : d <= c

PrevCut(cuts, c) == LastCut({d \in cuts : d < c})

\* the frame agrees with the cuts: one factor per closed segment, and the
\* running type set and count are those of the tokens after the last cut
Segmented(st, cuts) ==
  /\ st.factors = Cardinality(cuts)
  /\ \A c \in cuts : ClosedSegment(st.words, PrevCut(cuts, c), c)
  /\ st.count = st.i - LastCut(cuts)
  /\ st.types = {st.words[k] : k \in (LastCut(cuts) + 1)..st.i}
  /\ \A j \in (LastCut(cuts) + 1)..st.i :
       FloatLess(MtldThreshold,
                 Quot(Cardinality({st.words[k] : k \in (LastCut(cuts) + 1)..j}),
                      j - LastCut(cuts)))

\* C20: approx_mtld walks the tokens once; after i tokens its factor count,
\* type set and token count are those of the one split of the first i tokens
\* into segments that each end where distinct/count first is <= 0.72, so every
\* token is in exactly one segment; it returns 0.0 for no tokens and
\* otherwise len(words) / max(factors, 1e-9) with factors strictly positive
C20_MtldSegmentsAndResult ==
  /\ mtld.pc = "loop" =>
       /\ mtld.i \in 0..Len(mtld.words)
       /\ \E cuts \in SUBSET (1..mtld.i) : Segmented(mtld, cuts)
       /\ \A cuts, other \in SUBSET (1..mtld.i) :
            Segmented(mtld, cuts) /\ Segmented(mtld, other) => cuts = other
  /\ mtld.pc = "return" /\ mtld.words = <<>> => mtld.result = Float(0)
  /\ mtld.pc = "return" /\ mtld.words # <<>> =>
       /\ mtld.i = Len(mtld.words)
       /\ FloatLess(Float(0), mtld.factors)
       /\ MaxEpsilon(mtld.factors) = mtld.factors
       /\ mtld.result = Quot(Len(mtld.words) * mtld.factors.den, mtld.factors.num)

\* a call that closed one segment and returned with a partial factor
C20_Witness ==
  /\ mtld.pc = "return"
  /\ mtld.words = <<"a", "a", "b">>
  /\ mtld.count = 1
  /\ mtld.factors = Float(2)
  /\ mtld.result = Quot(3, 2)

\* the frame of approx_mtld(words) when its loop has ended
RECURSIVE MtldLoop(_)
MtldLoop(st) == IF st.i = Len(st.words) THEN st ELSE MtldLoop(MtldIteration(st))

\* the call ends inside a segment that was opened by a reset
EndsAfterReset(st) == st.count > 0 /\ st.factors >= 1

\* C21, as stated: approx_mtld can be called with some list of words that
\* ends after a reset in a segment whose TTR is above the threshold and whose
\* partial factor is below 0
C21_PartialCanBeNegative ==
  mtld.pc = "idle" =>
  \E words \in MtldWords \ {<<>>} :
    /\ EndsAfterReset(MtldLoop(MtldEnter(words)))
    /\ FloatLess(MtldThreshold, MtldLoop(MtldEnter(words)).ttr)
    /\ FloatLess(MtldPartial(MtldLoop(MtldEnter(words)).ttr), Float(0))

\* C21, amended: when approx_mtld leaves its loop inside a segment, after a
\* reset or not, the TTR of that segment is above the threshold and the
\* partial factor it adds is above 0 and at most 1
C21_PartialIsPositive ==
  mtld.pc = "return" /\ mtld.words # <<>> /\ mtld.count > 0 =>
    /\ FloatLess(MtldThreshold, mtld.ttr)
    /\ FloatLess(Float(0), MtldPartial(mtld.ttr))
    /\ ~FloatLess(Float(1), MtldPartial(mtld.ttr))

\* a call that returns inside a segment opened by a reset
C21_Witness ==
  /\ mtld.pc = "return"
  /\ mtld.words = <<"a", "a", "b", "c">>
  /\ mtld.count = 2
  /\ MtldPartial(mtld.ttr) = Float(1)

\* distinct(tokens[k..k+w-1]) / w, k counted from 1
WindowValue(words, k, w) == Quot(Cardinality({words[j] : j \in k..(k + w - 1)}), w)

\* the list moving_window_TTR returns has the values the statement gives
WindowValuesAsStated(words, w, win) ==
  /\ Len(words) >= w =>
       /\ Len(win) = Len(words) - w + 1
       /\ \A k \in 1..Len(win) :
            /\ win[k] = WindowValue(words, k, w)
            /\ ~FloatLess(win[k], Quot(1, w))
            /\ ~FloatLess(Float(1), win[k])
  /\ 0 < Len(words) /\ Len(words) < w =>
       win = <<Quot(Cardinality(Range(words)), Len(words))>>
  /\ Len(words) = 0 => win = <<>>

\* win_min <= win_avg <= win_max
StatsAreOrdered(stats) ==
  /\ ~DoubleLess(stats.win_avg, stats.win_min)
  /\ ~DoubleLess(stats.win_max, stats.win_avg)

\* C22: with a window w >= 1, moving_window_TTR returns n-w+1 values
\* distinct(tokens[k..k+w-1])/w, each between 1/w and 1, when n >= w, the one
\* value distinct(all tokens)/n when 0 < n < w, and no value when n = 0, where
\* the report's min, avg and max are 0.0; in every case min <= avg <= max
C22_WindowValuesAndOrder ==
  lex.pc = "return" /\ lex.window >= 1 =>
    /\ WindowValuesAsStated(lex.words, lex.window, lex.win)
    /\ lex.words = <<>> =>
         /\ lex.report.window_TTR_min = Float(0)
         /\ lex.report.window_TTR_avg = Float(0)
         /\ lex.report.window_TTR_max = Float(0)
    /\ StatsAreOrdered(lex.stats)

\* the last k of the first n tokens
LastTokens(words, n, k) == IF k <= 0 THEN <<>> ELSE SubSeq(words, Max(1, n - k + 1), n)

\* how often w is among the tokens
TokenRepeats(toks, w) == Cardinality({j \in 1..Len(toks) : toks[j] = w})

\* the count table is the multiset of the queue, with no entry of 0 or less
CountsAreQueue(counts, dq) ==
  /\ Range(counts.keys) = Range(dq)
  /\ DOMAIN counts.count = Range(dq)
  /\ \A w \in Range(dq) : counts.count[w] = TokenRepeats(dq, w) /\ counts.count[w] > 0

\* the positions up to n where the trailing window holds w at least
\* threshold times
OverThresholdAt(words, n, window, w) ==
  {p \in 1..n : TokenRepeats(LastTokens(words, p, Min(p, window)), w) >= ThresholdPerWindow}

FlagsAreExact(flagged, words, n, window) ==
  /\ Range(flagged.keys) = DOMAIN flagged.count
  /\ \A w \in Range(words) :
       IF w \notin STOP /\ OverThresholdAt(words, n, window, w) # {}
         THEN /\ w \in DOMAIN flagged.count
              /\ flagged.count[w] = Cardinality(OverThresholdAt(words, n, window, w))
         ELSE w \notin DOMAIN flagged.count
  /\ DOMAIN flagged.count \subseteq Range(words) \ STOP

\* C23: after each token of repetition_checks is processed the queue holds
\* the last min(tokens processed, window) tokens and the count table is the
\* multiset of the queue without zero or negative entries; a word is flagged
\* exactly when it is no stopword and at some position its count in the
\* trailing window was >= 6, and its flag value is the number of such positions
C23_WindowLoopInvariant ==
  mech.pc \in {"loop", "return"} /\ "st" \in DOMAIN mech =>
    /\ mech.st.dq = LastTokens(mech.words, mech.i, Min(mech.i, mech.window))
    /\ CountsAreQueue(mech.st.counts, mech.st.dq)
    /\ FlagsAreExact(mech.st.flagged, mech.words, mech.i, mech.window)
    /\ mech.pc = "return" =>
         mech.result.window_repetition_flags = most_common_items(mech.st.flagged, 20)

\* the window has slid and holds six times a word that was flagged twice
C23_Witness ==
  /\ mech.pc = "loop"
  /\ mech.window = ThresholdPerWindow + 1
  /\ mech.i > mech.window
  /\ \E w \in Range(mech.st.dq) :
       /\ TokenRepeats(mech.st.dq, w) >= ThresholdPerWindow
       /\ w \in DOMAIN mech.st.flagged.count
       /\ mech.st.flagged.count[w] >= 2

\* the tokens probable_variants compares
Candidates(toks, min_len) == {t \in Range(toks) : Len(t) >= min_len}

\* the similarity ratio of two tokens, the smaller one first
PairRatio(x, y) ==
  IF StrLess(x, y) THEN ratio(str_lower(x), str_lower(y))
  ELSE ratio(str_lower(y), str_lower(x))

\* two tokens that the statement says are reported
Reportable(x, y, min_len, cutoff) ==
  /\ Len(x) >= min_len /\ Len(y) >= min_len
  /\ LowerChar(x[1]) = LowerChar(y[1])
  /\ str_lower(x) # str_lower(y)
  /\ FloatGeq(PairRatio(x, y), cutoff)

\* C24: probable_variants reports a pair only if both tokens have at least
\* min_len characters, the same first letter ignoring case, differ after
\* lower-casing and have a ratio >= cutoff; every such unordered pair of
\* distinct candidate tokens is reported exactly once; no pair of tokens
\* with different first letters is reported
C24_VariantPairs ==
  cont.pc = "return" /\ "cutoff" \in DOMAIN cont =>
    /\ \A r \in 1..Len(cont.result) :
         /\ cont.result[r].a \in Range(cont.tokens)
         /\ cont.result[r].b \in Range(cont.tokens)
         /\ Reportable(cont.result[r].a, cont.result[r].b, cont.min_len, cont.cutoff)
         /\ LowerChar(cont.result[r].a[1]) = LowerChar(cont.result[r].b[1])
    /\ \A x, y \in Candidates(cont.tokens, cont.min_len) :
         x # y /\ Reportable(x, y, cont.min_len, cont.cutoff) =>
           Cardinality({r \in 1..Len(cont.result) :
                          {cont.result[r].a, cont.result[r].b} = {x, y}}) = 1

\* a call that reports one pair of its three tokens, a third token being
\* shorter than min_len and of another first letter
C24_Witness ==
  /\ cont.pc = "return" /\ "cutoff" \in DOMAIN cont
  /\ cont.min_len = DefaultMinLen
  /\ Len(cont.result) = 1
  /\ cont.tokens = <<<<"t", "h", "e", "a">>, <<"T", "h", "e", "a", "a">>, <<"J", "o">>>>

\* the sentence has at least 3 pronoun tokens and no token that starts with
\* an upper-case letter
IsAmbiguous(s) ==
  /\ Cardinality({k \in 1..Len(cont_word_tokens(s)) :
                    str_lower(cont_word_tokens(s)[k]) \in PRONOUNS}) >= 3
  /\ \A k \in 1..Len(cont_word_tokens(s)) : cont_word_tokens(s)[k][1] \notin Upper

\* the first token of the sentence, lower-cased, is a pronoun
PronounLed(s) ==
  /\ cont_word_tokens(s) # <<>>
  /\ str_lower(cont_word_tokens(s)[1]) \in PRONOUNS

\* the length of the block of pronoun-led sentences that ends with the n-th
RunEndingAt(sent_list, n) ==
  CHOOSE k \in 0..n :
    /\ \A j \in (n - k + 1)..n : PronounLed(sent_list[j])
    /\ k < n => ~PronounLed(sent_list[n - k])

LongestRun(sent_list, n) ==
  IF n = 0 THEN 0
  ELSE CHOOSE k \in 0..n :
         /\ \E j \in 1..n : RunEndingAt(sent_list, j) = k
         /\ \A j \in 1..n : RunEndingAt(sent_list, j) <= k

\* C25: after each sentence pronoun_ambiguity has counted exactly the
\* sentences seen with >= 3 pronoun tokens and no token starting in upper
\* case; its max run is the longest block of consecutive pronoun-led sentences
\* seen, its current run the block that ends at the last sentence (0 when
\* that is not pronoun-led), and current run <= max run <= sentences seen;
\* it returns the count and the max run
C25_PronounLoopInvariant ==
  cont.pc \in {"loop", "return"} /\ "sent_list" \in DOMAIN cont =>
    /\ cont.st.ambiguous =
         Cardinality({j \in 1..cont.i : IsAmbiguous(cont.sent_list[j])})
    /\ cont.st.max_run = LongestRun(cont.sent_list, cont.i)
    /\ cont.st.cur_run = RunEndingAt(cont.sent_list, cont.i)
    /\ cont.i > 0 /\ ~PronounLed(cont.sent_list[cont.i]) => cont.st.cur_run = 0
    /\ cont.st.cur_run <= cont.st.max_run
    /\ cont.st.max_run <= cont.i
    /\ cont.pc = "return" =>
         /\ cont.i = Len(cont.sent_list)
         /\ cont.result = [ambiguous_sentences |-> cont.st.ambiguous,
                           max_pronoun_led_run |-> cont.st.max_run]

\* a scan whose current run was reset and is shorter than the max run, with
\* an ambiguous sentence and a capitalised sentence of three pronouns seen
C25_Witness ==
  /\ cont.pc = "loop" /\ "sent_list" \in DOMAIN cont
  /\ cont.i = 4
  /\ cont.st.max_run = 2
  /\ cont.st.cur_run = 1
  /\ cont.st.ambiguous = 1
  /\ \E j \in 1..cont.i :
       /\ ~IsAmbiguous(cont.sent_list[j])
       /\ PronounLed(cont.sent_list[j])
       /\ \E k \in 1..Len(cont_word_tokens(cont.sent_list[j])) :
            cont_word_tokens(cont.sent_list[j])[k][1] \in Upper

(***************************************************************************)
(* C26: for every window of WEIGHTS and every position, in_window returns  *)
(* 1 at the center of the window, 1 minus the distance from the center in  *)
(* half-widths while that is at least 0.1, 0.1 from there to the edges     *)
(* (both included) and 0.5 outside the window, so the weight is never 0    *)
(* and lies in [0.1, 1.0]; a sentence with c >= 1 cues of a beat gets the  *)
(* hit of score c * (0.6 + 0.4 * weight), rounded to three digits, which   *)
(* lies between 0.64 * c and c, and a sentence with no cue gets no hit.    *)
(***************************************************************************)
WindowCenter(lo, hi) == Quot(lo.num * hi.den + hi.num * lo.den, 2 * lo.den * hi.den)

\* the distance of pos from the center, in half-widths of the window
CenterDistance(pos, lo, hi) ==
  FloatDiv(FloatAbs(FloatSub(pos, WindowCenter(lo, hi))),
           Quot(hi.num * lo.den - lo.num * hi.den, 2 * lo.den * hi.den))

OutsideWindow(pos, lo, hi) == FloatLess(pos, lo) \/ FloatLess(hi, pos)

WeightAsStated(pos, lo, hi, w) ==
  /\ FloatGeq(w, Quot(1, 10)) /\ FloatGeq(Float(1), w)
  /\ OutsideWindow(pos, lo, hi) => w = Quot(1, 2)
  /\ pos = WindowCenter(lo, hi) => w = Float(1)
  /\ pos \in {lo, hi} => w = Quot(1, 10)
  /\ ~OutsideWindow(pos, lo, hi) =>
       IF FloatGeq(Quot(9, 10), CenterDistance(pos, lo, hi))
       THEN w = FloatSub(Float(1), CenterDistance(pos, lo, hi))
       ELSE w = Quot(1, 10)

ScoreAsStated(hit, c, w) ==
  /\ c >= 1
  /\ hit.cues = c
  /\ hit.score = RoundTo(c * (3 * w.den + 2 * w.num), 5 * w.den, 1000)
  /\ FloatGeq(hit.score, Quot(64 * c, 100))
  /\ FloatGeq(Float(c), hit.score)

HitsAsStated(s, pos, hits) ==
  \A beat \in Range(BEATS) :
    IF CueScore(beats_toks(s), CUES[beat]) = 0 THEN hits[beat] = <<>>
    ELSE /\ Len(hits[beat]) = 1
         /\ ScoreAsStated(hits[beat][1], CueScore(beats_toks(s), CUES[beat]),
                          in_window(pos, WEIGHTS[beat].lo, WEIGHTS[beat].hi))

C26_PositionWeightAndScore ==
  /\ beats.pc = "return" /\ beats.fn = "in_window" =>
       WeightAsStated(beats.pos, beats.lo, beats.hi, beats.result)
  /\ beats.pc = "return" /\ beats.fn = "score_sentence" =>
       HitsAsStated(beats.s, beats.pos, beats.hits)

\* in_window has returned 0.1 at the upper edge of the midpoint window
C26_Witness ==
  /\ beats.pc = "return" /\ beats.fn = "in_window"
  /\ beats.beat = "midpoint"
  /\ beats.pos = beats.hi
  /\ beats.result = Quot(1, 10)

(***************************************************************************)
(* C27: analyze returns an entry for each of the six beats; for top_k >= 0 *)
(* an entry holds at most top_k hits; every hit is a sentence of the text  *)
(* with at least one cue of the beat; the hits are in non-increasing score *)
(* order, equal scores in document order; and every sentence with a cue of *)
(* the beat that is left out scores no higher than the last hit retained.  *)
(***************************************************************************)
\* pos = (i+1) / n of the sentence of index idx
PositionOf(idx, sents) == Quot(idx + 1, IF Len(sents) # 0 THEN Len(sents) ELSE 1)

\* the score of sentence idx for the beat, when it has a cue of the beat
SentenceScore(idx, sents, beat) ==
  beat_score_sentence(idx, sents[idx + 1], PositionOf(idx, sents), beat)[1].score

HasCue(idx, sents, beat) == CueScore(beats_toks(sents[idx + 1]), CUES[beat]) >= 1

HitIsSentence(hit, sents, beat) ==
  /\ hit.index \in 0..(Len(sents) - 1)
  /\ hit.text = sents[hit.index + 1]
  /\ HasCue(hit.index, sents, beat)
  /\ hit.cues >= 1
  /\ hit.score = SentenceScore(hit.index, sents, beat)

InScoreOrder(hits) ==
  \A i, j \in 1..Len(hits) :
    i < j => \/ FloatLess(hits[j].score, hits[i].score)
             \/ hits[j].score = hits[i].score /\ hits[i].index < hits[j].index

LeftOutScoreLower(hits, sents, beat) ==
  \A idx \in 0..(Len(sents) - 1) :
    HasCue(idx, sents, beat) /\ (\A i \in 1..Len(hits) : hits[i].index # idx) =>
      \A i \in 1..Len(hits) :
        FloatGeq(hits[i].score, SentenceScore(idx, sents, beat))

EntryAsStated(hits, sents, beat, top_k) ==
  /\ top_k >= 0 => Len(hits) <= top_k
  /\ \A i \in 1..Len(hits) : HitIsSentence(hits[i], sents, beat)
  /\ InScoreOrder(hits)
  /\ LeftOutScoreLower(hits, sents, beat)

C27_TopKPerBeat ==
  beats.pc = "return" /\ beats.fn = "analyze" /\ "top_k" \in DOMAIN beats =>
    /\ DOMAIN beats.result = Range(BEATS)
    /\ Cardinality(Range(BEATS)) = 6
    /\ \A beat \in Range(BEATS) :
         EntryAsStated(beats.result[beat], beats.sents, beat, beats.top_k)

\* three sentences with one cue of the midpoint, all outside its window and
\* so of one score, and top_k = 2: the first two are retained in their order
C27_Witness ==
  /\ beats.pc = "return" /\ beats.fn = "analyze" /\ "top_k" \in DOMAIN beats
  /\ beats.top_k = 2
  /\ Len(beats.sents) = 3
  /\ \A idx \in 0..2 : HasCue(idx, beats.sents, "midpoint")
  /\ Len(beats.result["midpoint"]) = 2
  /\ beats.result["midpoint"][1].index = 0
  /\ beats.result["midpoint"][2].index = 1
  /\ beats.result["midpoint"][1].score = beats.result["midpoint"][2].score

(***************************************************************************)
(* C28: in the report of analyze_chapter the divider paragraphs add no     *)
(* sentence and are left out of paragraph_count; scene_boundaries is       *)
(* strictly increasing and starts with 0; every other entry is the index   *)
(* of the paragraph right after a divider and is less than the number of   *)
(* paragraphs of the text, dividers included, so a divider that is the     *)
(* last paragraph opens no scene; scene_count is the number of boundaries. *)
(***************************************************************************)
DividerIndexes(paragraphs) == {i \in 1..Len(paragraphs) : IsDivider(paragraphs[i])}

RECURSIVE ProseSentenceCount(_, _)
ProseSentenceCount(paragraphs, i) ==
  IF i > Len(paragraphs) THEN 0
  ELSE (IF i \in DividerIndexes(paragraphs) THEN 0
        ELSE Len(structural_split_sentences(paragraphs[i])))
       + ProseSentenceCount(paragraphs, i + 1)

DividersAreNotProse(paragraphs, report) ==
  /\ report.sentence_count = ProseSentenceCount(paragraphs, 1)
  /\ report.paragraph_count = Len(paragraphs) - Cardinality(DividerIndexes(paragraphs))

\* paragraph i of the code is paragraphs[i + 1] here
BoundariesAsStated(paragraphs, boundaries) ==
  /\ Len(boundaries) >= 1
  /\ boundaries[1] = 0
  /\ \A k \in 1..(Len(boundaries) - 1) : boundaries[k] < boundaries[k + 1]
  /\ \A k \in 2..Len(boundaries) :
       /\ boundaries[k] \in DividerIndexes(paragraphs)
       /\ boundaries[k] < Len(paragraphs)
  /\ \A i \in DividerIndexes(paragraphs) :
       i < Len(paragraphs) => \E k \in 1..Len(boundaries) : boundaries[k] = i

StatedRank(memory) ==
  IF memory.priority = "high" THEN 0 ELSE IF memory.priority = "low" THEN 2 ELSE 1

\* a must come before b: a higher priority, or the same and newer
StatedBefore(a, b) ==
  \/ StatedRank(a) < StatedRank(b)
  \/ StatedRank(a) = StatedRank(b) /\ a.timestamp > b.timestamp

PassingIds(memories, topic_filter, tag_filter) ==
  {memories[i].id : i \in {n \in 1..Len(memories) :
                             /\ PassesTopic(memories[n], topic_filter)
                             /\ PassesTag(memories[n], tag_filter)}}

ResultIds(result) == {result[k].id : k \in 1..Len(result)}

InStatedOrder(result) ==
  \A i, j \in 1..Len(result) : i < j => ~StatedBefore(result[j], result[i])

\* what is left out by the limit comes after what is returned
LimitKeepsFirst(memories, result) ==
  \A n \in 1..Len(memories), k \in 1..Len(result) :
    memories[n].id \notin ResultIds(result) => ~StatedBefore(memories[n], result[k])

ResultCount(passing, limit) ==
  IF limit = None THEN passing
  ELSE IF limit[1] = 0 THEN passing
  ELSE Min(limit[1], passing)

GetMemoriesAsStated(memories, call) ==
  /\ ResultIds(call.result) \subseteq PassingIds(memories, call.topic_filter, call.tag_filter)
  /\ Len(call.result) = Cardinality(ResultIds(call.result))
  /\ Len(call.result)
       = ResultCount(Cardinality(PassingIds(memories, call.topic_filter, call.tag_filter)),
                     call.limit)
  /\ \A k \in 1..Len(call.result) :
       \E n \in 1..Len(memories) : memories[n] = call.result[k]
  /\ InStatedOrder(call.result)
  /\ LimitKeepsFirst(MemoriesAt(memories,
                                Filtered(memories, call.topic_filter, call.tag_filter)),
                     call.result)

C29_PriorityThenNewest ==
  tool.call.fn = "get_memories" => GetMemoriesAsStated(tool.memories, tool.call)

(***************************************************************************)
(* C30: search_memories only reads: a call of it leaves every memory of    *)
(* the tool, its keys and its values, as it was, so that what the next     *)
(* save writes does not depend on the searches made.                       *)
(***************************************************************************)
C30_SearchIsReadOnly == [][SearchMemories => tool'.memories = tool.memories]_vars

====
